---- MODULE Spec2Model ----
(***************************************************************************)
(* pixelSpace: the gallery's dimensionality-reduction pipeline.            *)
(*                                                                         *)
(*   SpecNormalize  normalizePixels (GalleryCanvas.svelte) with the legacy *)
(*                  conversion of palette.ts, applied to pixel arrays.     *)
(*   SpecWorker     the message handlers of the t-SNE and UMAP workers:    *)
(*                  one step per posted message / optimiser iteration.     *)
(*   SpecGallery    the GalleryCanvas component: the drawings effect, the  *)
(*                  deferred k-NN projection, runUMAP, the worker and the  *)
(*                  done handler, the mode switch and the animation.       *)
(*                                                                         *)
(* Floating-point world coordinates are modelled as integers (one unit =   *)
(* one world unit); divisions round down.  Math.random() is a generator    *)
(* whose hidden state is a seed drawn nondeterministically; a draw is a    *)
(* tenth r in 0..9 standing for the value r/10.                            *)
(***************************************************************************)
EXTENDS Integers, Sequences, FiniteSets, TLC

VARIABLES
  \* ---- normalizePixels ----
  npIn,        \* the pixel array handed to normalizePixels
  npOut,       \* its result
  npPc,        \* "input" | "done"
  \* ---- worker (t-SNE / UMAP message handler) ----
  wAlg,        \* "tsne" | "umap": which worker script this is
  wReq,        \* the request being handled: [n, iters, fault, seed]
  wPc,         \* "idle" | "run" | "loop" | "catch" | "finished"
  wIter,       \* loop counter of the optimiser (iter / epoch)
  wTotal,      \* iteration budget of the running optimiser
  wOut,        \* messages posted for the current request, in order
  wBranch,     \* which return produced the embedding of the done message
  wThrown,     \* an exception was raised inside runTSNE / runUMAP
  wEscaped,    \* an exception left the message handler
  wCount,      \* requests received so far
  \* ---- gallery component (GalleryCanvas.svelte) and its parent page ----
  drawings,                  \* the drawings prop, newest first: [id, px, created]
  pendingNewDrawingPosition, \* the prop of that name, NoPoint for null
  ownPx,                     \* pixels of the drawing being saved, "none" if none
  positions,                 \* Map id -> point
  targetPositions,
  oldPositions,
  isComputing,
  isAnimatingPositions,
  isFirstLoad,
  umapDrawingSnapshot,
  lastEmbeddings,
  lastDrawingIds,
  lastDrawingsLength,
  trackedDrawingIds,
  lastMode,
  clusterMode,
  reqQ,        \* messages posted to the worker and not yet taken by it
  doneQ,       \* done messages not yet handled, tagged with their request
  effDeps,     \* signals the drawings effect read on its last run
  posted,      \* number of recompute requests issued so far
  knnPlaced,   \* ids placed by k-NN projection since the last request went out
  knnOutcome,  \* what the k-NN microtask of the last step did, NoOutcome if none ran
  inFlightBatch, \* ids of the last batch, if it arrived with a request outstanding
  userEvents,  \* saves, mode switches and recluster clicks so far
  feed,        \* batches of drawings the server will still deliver
  posRef,      \* the Map object that positions holds
  targetRef,   \* the Map object that targetPositions holds
  oldRef,      \* the Map object that oldPositions holds
  delivered,   \* Map objects handed to onPositionsComputed: their entries
               \* at the time of the call (then) and at present (now)
  \* ---- feature extraction ----
  fIn,         \* the pixel array handed to the extractors
  fPc,         \* "off" | "input" | "enhanced" | "invariant" | "compared"
  fEnh,        \* extractEnhancedFeatures(fIn, fWeights)
  fWeights,    \* the weights of that call
  fInv,        \* extractInvariantFeatures(fIn)
  fOther,      \* a second drawing: an orientation variant or a translate of fIn
  fInvOther,   \* extractInvariantFeatures of the second drawing
  \* ---- incremental projector (computePreviewPosition) ----
  pvDrawings,            \* the drawings prop at the time of the calls
  pvPositions,           \* the positions map at the time of the calls
  pvWeights,             \* the weights the three switches give
  cachedDrawingFeatures, \* Map id -> feature vector
  pvIn,                  \* pixels of the last call
  pvOut,                 \* its result, NoPoint for null
  pvPc,                  \* "off" | "idle" | "returned"
  \* ---- collision relaxation (resolveCollisions) ----
  rcIn,        \* the points of the map before the last run
  rcPts,       \* the points of the map, in insertion order
  rcRuns,      \* runs of resolveCollisions on this map so far
  rcSeed,      \* the seed of the draws of Math.random() in the last run
  rcPc,        \* "off" | "ready" | "relaxed"
  \* ---- the steps of runUMAP for n >= 6 ----
  uData,       \* the vectors
  uConfig,     \* config: nNeighbors, nEpochs
  uSeed,       \* the seed of the draws of Math.random()
  uNeighbors,  \* findKNearestNeighbors: k, indices, distances
  uGraph,      \* computeMembershipStrengths: head, tail, weights
  uEpoch,      \* epochs of optimizeLayout done
  uSamples,    \* the negative samples of the last epoch
  uPc,         \* "off" | "start" | "neighbors" | "graph" | "layout"
  \* ---- POST /api/drawings (routes/api/drawings/+server.ts) ----
  sBody,       \* the request: [json, name, creator, pixels, pixel_string, pixel_grid]
  sStatus,     \* status of the response, 0 before the request
  sInsert,     \* "none" | "stored" | "failed": what became of supabase's insert
  sRows,       \* rows of the drawings table written by the handler
  sPc          \* "off" | "waiting" | "answered"

wvars == <<wAlg, wReq, wPc, wIter, wTotal, wOut, wBranch, wThrown, wEscaped, wCount>>
nvars == <<npIn, npOut, npPc>>
gvars == <<drawings, pendingNewDrawingPosition, ownPx, positions, targetPositions,
           oldPositions, isComputing, isAnimatingPositions, isFirstLoad,
           umapDrawingSnapshot, lastEmbeddings, lastDrawingIds, lastDrawingsLength,
           trackedDrawingIds, lastMode, clusterMode, reqQ, doneQ, effDeps, posted,
           knnPlaced, userEvents, feed, posRef, targetRef, oldRef, delivered,
           knnOutcome, inFlightBatch>>
fvars == <<fIn, fPc, fEnh, fWeights, fInv, fOther, fInvOther>>
pvars == <<pvDrawings, pvPositions, pvWeights, cachedDrawingFeatures, pvIn, pvOut, pvPc>>
rvars == <<rcIn, rcPts, rcRuns, rcSeed, rcPc>>
uvars == <<uData, uConfig, uSeed, uNeighbors, uGraph, uEpoch, uSamples, uPc>>
svars == <<sBody, sStatus, sInsert, sRows, sPc>>
ovars == <<uvars, svars>>
hvars == <<fvars, pvars, rvars, ovars>>
vars == <<nvars, wvars, gvars, hvars>>

\* ------------------------------------------------------------------ bounds
MaxPrefix == 2       \* free entries at the head of a generated pixel array
MaxN == 7            \* vectors in one worker request
MaxIters == 52       \* largest configured iteration / epoch count
MaxRequests == 2     \* requests one worker handles in a run

\* ------------------------------------------------------- program constants
GRID_SIZE == 16
NUM_COLORS == 8
COLOR_BLACK == 0
COLOR_WHITE == 1
LegacyThreshold == 127
MaxColorIndex == 7
TSNE_PROGRESS_EVERY == 25
UMAP_PROGRESS_EVERY == 10
UMAP_MAX_EPOCHS == 50
UMAP_SMALL_N == 5

Min(a, b) == IF a <= b THEN a ELSE b
Max(a, b) == IF a >= b THEN a ELSE b

\* ===================================================== pixel normalisation
\* palette.ts: legacyGrayscaleToColorIndex
legacyGrayscaleToColorIndex(value) ==
  IF value <= LegacyThreshold THEN COLOR_BLACK ELSE COLOR_WHITE

\* palette.ts: isLegacyBWFormat -- pixels.some(v => v > 7)
isLegacyBWFormat(pixels) ==
  \E i \in 1..Len(pixels) : pixels[i] > MaxColorIndex

\* palette.ts: convertLegacyPixels
convertLegacyPixels(pixels) ==
  IF ~isLegacyBWFormat(pixels) THEN pixels
  ELSE [i \in 1..Len(pixels) |-> legacyGrayscaleToColorIndex(pixels[i])]

\* GalleryCanvas.svelte: the length step of normalizePixels (pad / slice)
fitLength(arr, expectedLength) ==
  IF Len(arr) < expectedLength
    THEN arr \o [i \in 1..(expectedLength - Len(arr)) |-> COLOR_WHITE]
  ELSE IF Len(arr) > expectedLength
    THEN SubSeq(arr, 1, expectedLength)
  ELSE arr

\* variant: the validity loop tests only the upper limit
fixInvalidKeepNegative(arr) ==
  [i \in 1..Len(arr) |-> IF arr[i] >= NUM_COLORS THEN COLOR_WHITE ELSE arr[i]]

\* GalleryCanvas.svelte: the validity loop of normalizePixels
fixInvalid(arr) ==
  [i \in 1..Len(arr) |->
     IF arr[i] < 0 \/ arr[i] >= NUM_COLORS THEN COLOR_WHITE ELSE arr[i]]

\* GalleryCanvas.svelte: normalizePixels
normalizePixels(pixels) ==
  LET expectedLength == GRID_SIZE * GRID_SIZE
      converted == IF isLegacyBWFormat(pixels) THEN convertLegacyPixels(pixels)
                   ELSE pixels
  IN fixInvalid(fitLength(converted, expectedLength))

\* Pixel arrays the caller may hand over: integer entries, a free head, a
\* constant fill and a free last entry, of a length around GRID_SIZE * GRID_SIZE.
PixelValues == {-1, 0, 1, 5, 7, 8, 127, 128, 255}
PixelLengths == {0, 1, GRID_SIZE * GRID_SIZE - 1, GRID_SIZE * GRID_SIZE,
                 GRID_SIZE * GRID_SIZE + 1, GRID_SIZE * GRID_SIZE + 2}
Heads == UNION {[1..k -> PixelValues] : k \in 0..MaxPrefix}
PixelInputs ==
  {[i \in 1..Max(len, Len(h)) |->
      IF i <= Len(h) THEN h[i] ELSE IF i = len THEN t ELSE v] :
     h \in Heads, len \in PixelLengths, v \in {0, 1, 255}, t \in PixelValues}


Normalize ==
  /\ npPc = "input"
  /\ npOut' = normalizePixels(npIn)
  /\ npPc' = "done"
  /\ UNCHANGED <<npIn, wvars, gvars, hvars>>

\* ================================================================= workers
\* Math.random(): the k-th draw (in tenths) of a generator started at seed.
Seeds == 0..2
RandomDraw(seed, k) == (seed * 3 + k * 7) % 10

\* fallback: vectors.map(() => [Math.random()*100 - 50, Math.random()*100 - 50])
fallbackEmbeddings(n, seed) ==
  [i \in 1..n |-> <<RandomDraw(seed, 2 * i - 1) * 10 - 50,
                    RandomDraw(seed, 2 * i) * 10 - 50>>]

\* variant: the small-N layout drawn from the range of the fallback
randomLayoutWide(n, seed) == fallbackEmbeddings(n, seed)

\* runUMAP, n <= 5: data.map(() => [(Math.random()-0.5)*20, (Math.random()-0.5)*20])
randomLayout(n, seed) ==
  [i \in 1..n |-> <<(RandomDraw(seed, 2 * i - 1) - 5) * 2,
                    (RandomDraw(seed, 2 * i) - 5) * 2>>]

\* The layout an optimiser run converges to, one point per input vector.  The
\* numerical values of the gradient steps are not modelled: the result is a
\* layout determined by the random initialisation (the seed).
optimizedLayout(n, seed) ==
  [i \in 1..n |-> <<RandomDraw(seed, i) - 5, RandomDraw(seed + 1, 2 * i) - 5>>]

\* ---- messages (types.ts: TSNEWorkerResponse / UMAPWorkerResponse) ----
ProgressMsg(it, total) ==
  [type |-> "progress", iteration |-> it, totalIterations |-> total]
\* variant: the done message loses the first point
DoneMsgShort(emb) ==
  [type |-> "done", embeddings |-> IF emb = <<>> THEN emb ELSE Tail(emb)]
DoneMsg(emb) == [type |-> "done", embeddings |-> emb]
LogMsg == [type |-> "log"]

\* log(): only the UMAP worker posts log messages
log(alg, k) == IF alg = "umap" THEN [i \in 1..k |-> LogMsg] ELSE <<>>

IterChoices == {1, 2, 25, 26, 27, 51, MaxIters}
Faults == {"none", "setup", "loop"}
Requests ==
  [n : 0..MaxN, iters : IterChoices, fault : Faults, seed : Seeds]
NoRequest == [n |-> 0, iters |-> 1, fault |-> "none", seed |-> 0]

\* variant: no early return, every request enters the try block
onmessageNoEarly(alg, n) ==
  [pc |-> "run", branch |-> "none", out |-> log(alg, 1)]

\* self.onmessage up to the try block: the N = 0 and N = 1 early returns
onmessageEarly(alg, n) ==
  IF n = 0 THEN
    [pc |-> "finished", branch |-> "empty",
     out |-> log(alg, 2) \o <<DoneMsg(<<>>)>>]
  ELSE IF n = 1 THEN
    [pc |-> "finished", branch |-> "single",
     out |-> log(alg, 2) \o <<DoneMsg(<< <<0, 0>> >>)>>]
  ELSE
    [pc |-> "run", branch |-> "none", out |-> log(alg, 1)]

\* The first access to an element of a vector that is not an array raises a
\* TypeError: data[0].length in runTSNE (n >= 2) and in runUMAP (n >= 6).
setupThrows(req) == req.fault = "setup"

\* runTSNE from its entry to the gradient-descent loop.  It has no branch for
\* n = 2: every n >= 2 goes through PCA, the P matrix and the loop.
runTSNEEntry(req) ==
  IF req.n = 0 THEN [kind |-> "return", branch |-> "empty", emb |-> <<>>, logs |-> 0]
  ELSE IF req.n = 1 THEN
    [kind |-> "return", branch |-> "single", emb |-> << <<0, 0>> >>, logs |-> 0]
  ELSE IF setupThrows(req) THEN [kind |-> "throw", logs |-> 0]
  ELSE [kind |-> "loop", total |-> req.iters, logs |-> 0]

\* variant: runUMAP without its n === 2 branch
runUMAPEntryNoPair(req) ==
  IF req.n = 0 THEN
    [kind |-> "return", branch |-> "empty", emb |-> <<>>, logs |-> 3]
  ELSE IF req.n = 1 THEN
    [kind |-> "return", branch |-> "single", emb |-> << <<0, 0>> >>, logs |-> 3]
  ELSE IF req.n <= UMAP_SMALL_N THEN
    [kind |-> "return", branch |-> "random",
     emb |-> [i \in 1..req.n |-> <<(RandomDraw(req.seed, 2 * i - 1) - 5) * 2,
                                   (RandomDraw(req.seed, 2 * i) - 5) * 2>>], logs |-> 3]
  ELSE IF setupThrows(req) THEN [kind |-> "throw", logs |-> 2]
  ELSE [kind |-> "loop", total |-> Min(req.iters, UMAP_MAX_EPOCHS), logs |-> 9]

\* runUMAP from its entry to optimizeLayout's epoch loop
runUMAPEntry(req) ==
  IF req.n = 0 THEN
    [kind |-> "return", branch |-> "empty", emb |-> <<>>, logs |-> 3]
  ELSE IF req.n = 1 THEN
    [kind |-> "return", branch |-> "single", emb |-> << <<0, 0>> >>, logs |-> 3]
  ELSE IF req.n = 2 THEN
    [kind |-> "return", branch |-> "fixed2",
     emb |-> << <<-5, 0>>, <<5, 0>> >>, logs |-> 3]
  ELSE IF req.n <= UMAP_SMALL_N THEN
    [kind |-> "return", branch |-> "random",
     emb |-> randomLayout(req.n, req.seed), logs |-> 3]
  ELSE IF setupThrows(req) THEN [kind |-> "throw", logs |-> 2]
  ELSE [kind |-> "loop", total |-> Min(req.iters, UMAP_MAX_EPOCHS), logs |-> 9]

runEntry(alg, req) ==
  IF alg = "tsne" THEN runTSNEEntry(req) ELSE runUMAPEntry(req)

\* variant: progress on the period only, without the last-iteration test
postsProgressPeriodOnly(alg, it, total) ==
  IF alg = "tsne"
    THEN it % TSNE_PROGRESS_EVERY = 0
    ELSE it % UMAP_PROGRESS_EVERY = 0

\* Whether the loop body posts a progress message at counter value it
postsProgress(alg, it, total) ==
  IF alg = "tsne"
    THEN it % TSNE_PROGRESS_EVERY = 0 \/ it = total - 1
    ELSE it % UMAP_PROGRESS_EVERY = 0 \/ it = total - 1

\* variant: the catch block logs and rethrows
catchBlockRethrow(alg, req, out) ==
  [out |-> out \o log(alg, 1), escaped |-> TRUE]

\* The catch block of self.onmessage: log, then the random fallback
catchBlock(alg, req, out) ==
  [out |-> out \o log(alg, 1) \o <<DoneMsg(fallbackEmbeddings(req.n, req.seed))>>,
   escaped |-> FALSE]

\* self.onmessage: a request arrives
OnMessage ==
  /\ wPc \in {"idle", "finished"}
  /\ wCount < MaxRequests
  /\ \E req \in Requests :
       LET r == onmessageEarly(wAlg, req.n) IN
       /\ wReq' = req
       /\ wPc' = r.pc
       /\ wBranch' = r.branch
       /\ wOut' = r.out
  /\ wIter' = 0 /\ wTotal' = 0
  /\ wThrown' = FALSE /\ wEscaped' = FALSE
  /\ wCount' = wCount + 1
  /\ UNCHANGED <<wAlg, nvars, gvars, hvars>>

\* try { runTSNE / runUMAP ...: everything before the optimiser loop
RunStart ==
  /\ wPc = "run"
  /\ LET e == runEntry(wAlg, wReq) IN
       \/ /\ e.kind = "return"
          /\ wOut' = wOut \o log(wAlg, e.logs) \o <<DoneMsg(e.emb)>>
          /\ wBranch' = e.branch
          /\ wPc' = "finished"
          /\ UNCHANGED <<wIter, wTotal, wThrown>>
       \/ /\ e.kind = "throw"
          /\ wOut' = wOut \o log(wAlg, e.logs)
          /\ wThrown' = TRUE
          /\ wPc' = "catch"
          /\ UNCHANGED <<wIter, wTotal, wBranch>>
       \/ /\ e.kind = "loop"
          /\ wOut' = wOut \o log(wAlg, e.logs)
          /\ wIter' = 0
          /\ wTotal' = e.total
          /\ wPc' = "loop"
          /\ UNCHANGED <<wBranch, wThrown>>
  /\ UNCHANGED <<wAlg, wReq, wEscaped, wCount, nvars, gvars, hvars>>

\* one iteration of the gradient-descent loop / one epoch of optimizeLayout
Iterate ==
  /\ wPc = "loop"
  /\ wIter < wTotal
  /\ wIter' = wIter + 1
  /\ wOut' = IF postsProgress(wAlg, wIter, wTotal)
               THEN wOut \o log(wAlg, 1) \o <<ProgressMsg(wIter + 1, wTotal)>>
               ELSE wOut
  /\ UNCHANGED <<wAlg, wReq, wPc, wTotal, wBranch, wThrown, wEscaped, wCount, nvars, gvars, hvars>>

\* an exception raised inside the loop (the request's fault says it can be)
IterateThrows ==
  /\ wPc = "loop"
  /\ wIter < wTotal
  /\ wReq.fault = "loop"
  /\ wThrown' = TRUE
  /\ wPc' = "catch"
  /\ UNCHANGED <<wAlg, wReq, wIter, wTotal, wOut, wBranch, wEscaped, wCount, nvars, gvars, hvars>>

\* the loop is over: the optimiser returns and the handler posts done
RunReturn ==
  /\ wPc = "loop"
  /\ wIter >= wTotal
  /\ wOut' = wOut \o log(wAlg, 3)
                  \o <<DoneMsg(optimizedLayout(wReq.n, wReq.seed))>>
  /\ wBranch' = "optimized"
  /\ wPc' = "finished"
  /\ UNCHANGED <<wAlg, wReq, wIter, wTotal, wThrown, wEscaped, wCount, nvars, gvars, hvars>>

\* } catch (error) { ... }
Catch ==
  /\ wPc = "catch"
  /\ LET c == catchBlock(wAlg, wReq, wOut) IN
       /\ wOut' = c.out
       /\ wEscaped' = c.escaped
  /\ wBranch' = "fallback"
  /\ wPc' = "finished"
  /\ UNCHANGED <<wAlg, wReq, wIter, wTotal, wThrown, wCount, nvars, gvars, hvars>>

\* ================================================================= gallery
\* ---- layout post-processing (GalleryCanvas.svelte) ----
DRAWING_SIZE == 56
DRAWING_PADDING == 24
MIN_SPACING == DRAWING_SIZE + DRAWING_PADDING * 2
COLLISION_ITERATIONS == 8
MIN_SPREAD == 800
MAX_REALTIME_ADDITIONS_WITHOUT_UMAP == 5
PREVIEW_NEIGHBORS == 5

\* Math.sqrt on the squared distances below MIN_SPACING^2, rounded down
ISqrt(n) == CHOOSE r \in 0..MIN_SPACING : r * r <= n /\ (r + 1) * (r + 1) > n

\* a / b rounded toward zero
SignDiv(a, b) == IF a >= 0 THEN a \div b ELSE -((-a) \div b)

SetMin(S) == CHOOSE x \in S : \A y \in S : x <= y
SetMax(S) == CHOOSE x \in S : \A y \in S : x >= y

\* (cos, sin) of Math.random() * 2 * PI times minDistance / 2, for the ten
\* draws r / 10 and minDistance = MIN_SPACING
randomPush(r) ==
  CASE r = 0 -> <<52, 0>>   [] r = 1 -> <<42, 31>>  [] r = 2 -> <<16, 49>>
    [] r = 3 -> <<-16, 49>> [] r = 4 -> <<-42, 31>> [] r = 5 -> <<-52, 0>>
    [] r = 6 -> <<-42, -31>> [] r = 7 -> <<-16, -49>> [] r = 8 -> <<16, -49>>
    [] OTHER -> <<42, -31>>

\* variant: a pair is pushed apart whatever its distance
pushPairAlways(st, i, j, minDistance, seed) ==
  [pts |-> [st.pts EXCEPT ![i] = <<st.pts[i][1] - 1, st.pts[i][2]>>,
                          ![j] = <<st.pts[j][1] + 1, st.pts[j][2]>>],
   k |-> st.k]

\* variant: only the second point of a pair is moved
pushPairOneSided(st, i, j, minDistance, seed) ==
  [pts |-> [st.pts EXCEPT ![j] = <<st.pts[j][1] + 1, st.pts[j][2]>>],
   k |-> st.k]

\* resolveCollisions: the body of the innermost loop for the pair (i, j).
\* st = [pts, k]: the points and the number of random draws used so far.
pushPair(st, i, j, minDistance, seed) ==
  LET p1 == st.pts[i]
      p2 == st.pts[j]
      distX == p2[1] - p1[1]
      distY == p2[2] - p1[2]
      distSq == distX * distX + distY * distY
  IN IF distSq < minDistance * minDistance /\ distSq > 0 THEN
       LET dist == ISqrt(distSq)
           mx == SignDiv(distX * (minDistance - dist), 2 * dist)
           my == SignDiv(distY * (minDistance - dist), 2 * dist)
       IN [pts |-> [st.pts EXCEPT ![i] = <<p1[1] - mx, p1[2] - my>>,
                                  ![j] = <<p2[1] + mx, p2[2] + my>>],
           k |-> st.k]
     ELSE IF distSq = 0 THEN
       LET a == randomPush(RandomDraw(seed, st.k + 1))
       IN [pts |-> [st.pts EXCEPT ![i] = <<p1[1] - a[1], p1[2] - a[2]>>,
                                  ![j] = <<p2[1] + a[1], p2[2] + a[2]>>],
           k |-> st.k + 1]
     ELSE st

cellOf(p, cellSize) == <<p[1] \div cellSize, p[2] \div cellSize>>

\* the 3x3 neighbourhood in the order of the dx / dy loops
NeighbourOffsets ==
  << <<-1, -1>>, <<-1, 0>>, <<-1, 1>>, <<0, -1>>, <<0, 0>>, <<0, 1>>,
     <<1, -1>>, <<1, 0>>, <<1, 1>> >>

\* the indices j > i found through the grid for point i: grid[c] lists the
\* points whose cell was c when the pass began
RECURSIVE candidatesFrom(_, _, _, _)
candidatesFrom(o, i, cell, grid) ==
  IF o > Len(NeighbourOffsets) THEN <<>>
  ELSE LET key == <<cell[1] + NeighbourOffsets[o][1], cell[2] + NeighbourOffsets[o][2]>>
           idx == [j \in 1..Len(grid) |-> j]
       IN SelectSeq(idx, LAMBDA j : j > i /\ grid[j] = key)
            \o candidatesFrom(o + 1, i, cell, grid)

RECURSIVE pushAll(_, _, _, _, _)
pushAll(st, i, cands, minDistance, seed) ==
  IF cands = <<>> THEN st
  ELSE pushAll(pushPair(st, i, Head(cands), minDistance, seed),
               i, Tail(cands), minDistance, seed)

RECURSIVE collisionPass(_, _, _, _, _)
collisionPass(st, i, grid, minDistance, seed) ==
  IF i > Len(st.pts) THEN st
  ELSE collisionPass(
         pushAll(st, i,
                 candidatesFrom(1, i, cellOf(st.pts[i], minDistance), grid),
                 minDistance, seed),
         i + 1, grid, minDistance, seed)

RECURSIVE collisionIterations(_, _, _, _)
collisionIterations(st, iter, minDistance, seed) ==
  IF iter >= COLLISION_ITERATIONS THEN st
  ELSE collisionIterations(
         collisionPass(st, 1,
                       [j \in 1..Len(st.pts) |-> cellOf(st.pts[j], minDistance)],
                       minDistance, seed),
         iter + 1, minDistance, seed)

\* resolveCollisions(positionsMap, minDistance): pts are the map's points in
\* insertion order
resolveCollisions(pts, minDistance, seed) ==
  collisionIterations([pts |-> pts, k |-> 0], 0, minDistance, seed).pts

\* calculateDensityBasedSpread: sqrt(max(n, 1)) * MIN_SPACING * 1.4 * 1.5,
\* floored at MIN_SPREAD
calculateDensityBasedSpread(numDrawings) ==
  LET n == Max(numDrawings, 1)
      root100 == CHOOSE r \in 0..1000 :
                   r * r <= n * 10000 /\ (r + 1) * (r + 1) > n * 10000
  IN Max((root100 * MIN_SPACING * 21) \div 1000, MIN_SPREAD)

\* ((e - min) / range - 0.5) * spread
remap(e, lo, range, spread) == ((e - lo) * spread) \div range - spread \div 2

\* computePositionsForMode before the collision pass: the points of the
\* drawings that have an embedding, in the order of currentDrawings
rawPositions(ds, emb, mode, now) ==
  LET n == Len(ds)
      m == Min(n, Len(emb))
      base == calculateDensityBasedSpread(n)
      xs == {emb[i][1] : i \in 1..Len(emb)}
      ys == {emb[i][2] : i \in 1..Len(emb)}
      rangeX == IF SetMax(xs) - SetMin(xs) = 0 THEN 1 ELSE SetMax(xs) - SetMin(xs)
      rangeY == IF SetMax(ys) - SetMin(ys) = 0 THEN 1 ELSE SetMax(ys) - SetMin(ys)
      times == {ds[i].created : i \in 1..n}
      minTime == SetMin(times)
      timeRange == IF now - minTime = 0 THEN 1 ELSE now - minTime
  IN IF m = 0 THEN <<>>
     ELSE IF mode = "cluster" THEN
       [i \in 1..m |-> <<remap(emb[i][1], SetMin(xs), rangeX, base),
                         remap(emb[i][2], SetMin(ys), rangeY, base)>>]
     ELSE
       [i \in 1..m |-> <<remap(ds[i].created, minTime, timeRange, (base * 3) \div 2),
                         remap(emb[i][2], SetMin(ys), rangeY, (base * 6) \div 10)>>]

\* computePositionsForMode: the new position map (id -> point)
computePositionsForMode(ds, emb, mode, now, seed) ==
  LET raw == rawPositions(ds, emb, mode, now)
      pts == resolveCollisions(raw, MIN_SPACING, seed)
  IN [id \in {ds[i].id : i \in 1..Len(pts)} |->
        pts[CHOOSE i \in 1..Len(pts) : ds[i].id = id]]

\* ---- incremental projection ----
\* The drawings of the model are uniform or half-filled grids:
\*   "blank"  256 x COLOR_WHITE          "black"  256 x COLOR_BLACK
\*   "half"   left 8 columns COLOR_BLACK, right 8 columns COLOR_WHITE
Kinds == {"blank", "black", "half"}
\* "empty" is the pixel array of length 0
PreviewKinds == Kinds \cup {"empty"}

\* variant: every pixel array counts as having content
hasContentAlways(px) == TRUE

\* pixels.some(p => p !== COLOR_WHITE)
hasContent(px) == px \notin {"blank", "empty"}

\* the weights record built from the three switches (1.0 if on, 0.0 if off)
featureWeights(weightColor, weightShape, weightStyle) ==
  [colorHist |-> weightColor, adjacency |-> weightStyle, symmetry |-> weightStyle,
   structure |-> weightShape, components |-> weightShape, spatial |-> weightShape]

\* clusterWeightColor, clusterWeightShape, clusterWeightStyle default to true
defaultWeights == featureWeights(1, 1, 1)

\* The three switches weigh three groups of features: the colour histogram;
\* adjacency and symmetry; structure, components and spatial density.
FeatureGroups == {"color", "style", "shape"}
groupWeight(weights, g) ==
  CASE g = "color" -> weights.colorHist
    [] g = "style" -> weights.adjacency
    [] g = "shape" -> weights.structure

\* extractEnhancedFeatures(pixels, weights) for a drawing of the model.  The
\* vector is kept as the normalised drawing and the weights it was extracted
\* under; its inner products are tabulated by feature group below.
enhancedFeatures(px, weights) ==
  [px |-> IF px = "empty" THEN "blank" ELSE px, weights |-> weights]

\* sum of a[i] * b[i] over the unweighted features of group g, in thousandths
groupDot(a, b, g) ==
  IF a = b THEN
    CASE a = "blank" -> (CASE g = "color" -> 1000 [] g = "style" -> 5000 [] g = "shape" -> 250)
      [] a = "black" -> (CASE g = "color" -> 1000 [] g = "style" -> 5000 [] g = "shape" -> 22406)
      [] a = "half" -> (CASE g = "color" -> 500 [] g = "style" -> 1718 [] g = "shape" -> 9661)
  ELSE IF {a, b} = {"blank", "black"} THEN
    (CASE g = "color" -> 0 [] g = "style" -> 4000 [] g = "shape" -> 250)
  ELSE IF {a, b} = {"blank", "half"} THEN
    (CASE g = "color" -> 500 [] g = "style" -> 1983 [] g = "shape" -> 125)
  ELSE
    (CASE g = "color" -> 500 [] g = "style" -> 1983 [] g = "shape" -> 11248)

\* an array built element by element, as a stored sequence
Array(f) == f \o <<>>


RECURSIVE SumOver(_, _)
SumOver(f, S) ==
  IF S = {} THEN 0
  ELSE LET x == CHOOSE y \in S : TRUE IN f[x] + SumOver(f, S \ {x})

\* dot += a[i] * b[i] over the whole vectors
dotProduct(fa, fb) ==
  SumOver([g \in FeatureGroups |->
             groupWeight(fa.weights, g) * groupWeight(fb.weights, g)
               * groupDot(fa.px, fb.px, g)],
          FeatureGroups)

\* Math.sqrt rounded down, by bisection between lo and hi
RECURSIVE sqrtBetween(_, _, _)
sqrtBetween(n, lo, hi) ==
  IF lo >= hi THEN lo
  ELSE LET mid == (lo + hi + 1) \div 2
       IN IF mid * mid <= n THEN sqrtBetween(n, mid, hi)
          ELSE sqrtBetween(n, lo, mid - 1)

\* dot / (Math.sqrt(magA) * Math.sqrt(magB)) in thousandths, rounded to the
\* nearest; 0 when a magnitude is 0
cosineOf(dot, mag) ==
  IF mag = 0 THEN 0
  ELSE (dot * 1000 + sqrtBetween(mag, 0, 46340) \div 2) \div sqrtBetween(mag, 0, 46340)

\* cosineSimilarity(a, b) in thousandths
cosineSimilarity(fa, fb) ==
  cosineOf(dotProduct(fa, fb), dotProduct(fa, fa) * dotProduct(fb, fb))

\* the hash-derived offset (hashNormX, hashNormY) * DRAWING_SIZE * 0.8
hashOffset(px) ==
  IF px = "black" THEN <<-22, -22>>
  ELSE IF px = "half" THEN <<5, -5>>
  ELSE <<2, 4>>

NoPoint == <<>>
\* cachedDrawingFeatures = new Map()
NoCache == [id \in {} |-> defaultWeights]

\* if (!cachedDrawingFeatures.has(drawing.id)) cachedDrawingFeatures.set(...)
fillCache(ds, weights, cache) ==
  [id \in DOMAIN cache \cup {ds[i].id : i \in 1..Len(ds)} |->
     IF id \in DOMAIN cache THEN cache[id]
     ELSE enhancedFeatures(ds[CHOOSE i \in 1..Len(ds) : ds[i].id = id].px, weights)]

\* similarities.sort(...).slice(0, k): indices of the k most similar drawings;
\* the sort is stable, equal similarities keep the order of the drawings
topNeighbours(sim, k) ==
  {i \in DOMAIN sim :
     Cardinality({j \in DOMAIN sim : sim[j] > sim[i] \/ (sim[j] = sim[i] /\ j < i)}) < k}

\* the weighted average of the positions of the drawings in used, plus the
\* hash-derived offset; null when the total weight is 0
weightedPosition(ds, pos, weight, used, totalWeight, off) ==
  IF used = {} \/ totalWeight = 0 THEN NoPoint
  ELSE <<SumOver([i \in 1..Len(ds) |->
                    IF i \in used THEN pos[ds[i].id][1] * weight[i] ELSE 0], used)
           \div totalWeight + off[1],
         SumOver([i \in 1..Len(ds) |->
                    IF i \in used THEN pos[ds[i].id][2] * weight[i] ELSE 0], used)
           \div totalWeight + off[2]>>

\* the loop over topK: a neighbour without a position is skipped, the others
\* weigh similarity * similarity (in thousandths, rounded up: positive stays
\* positive)
averageNeighbours(ds, pos, weight, used, off) ==
  weightedPosition(ds, pos, weight, used, SumOver(weight, used), off)

\* the part of computePreviewPosition after the similarities are known
positionFrom(px, ds, pos, sim) ==
  averageNeighbours(ds, pos,
    Array([i \in 1..Len(ds) |-> (sim[i] * sim[i] + 999) \div 1000]),
    {i \in topNeighbours(sim, Min(PREVIEW_NEIGHBORS, Len(ds))) : ds[i].id \in DOMAIN pos},
    hashOffset(px))

\* the part of computePreviewPosition after the cache is filled
previewFrom(px, ds, pos, previewFeatures, filled) ==
  [point |-> positionFrom(px, ds, pos,
               Array([i \in 1..Len(ds) |->
                        cosineSimilarity(previewFeatures, filled[ds[i].id])])),
   cache |-> filled]

\* computePreviewPosition(pixels), reading the component's drawings, positions,
\* weights and cachedDrawingFeatures; the result is the returned point (NoPoint
\* stands for null) and the cache the call leaves behind
computePreviewPosition(px, ds, pos, weights, cache) ==
  IF DOMAIN pos = {} \/ px = "empty" \/ ~hasContent(px)
    THEN [point |-> NoPoint, cache |-> cache]
  ELSE previewFrom(px, ds, pos, enhancedFeatures(px, weights),
                   fillCache(ds, weights, cache))

\* ---- component state as one record, so that handlers compose ----
NoOutcome == [batch |-> {}, projected |-> {}, kept |-> TRUE, recompute |-> FALSE]

G ==
  [drawings |-> drawings, pending |-> pendingNewDrawingPosition,
   positions |-> positions, targetPositions |-> targetPositions,
   oldPositions |-> oldPositions, isComputing |-> isComputing,
   isAnimatingPositions |-> isAnimatingPositions, isFirstLoad |-> isFirstLoad,
   snapshot |-> umapDrawingSnapshot, lastEmbeddings |-> lastEmbeddings,
   lastDrawingIds |-> lastDrawingIds, lastDrawingsLength |-> lastDrawingsLength,
   tracked |-> trackedDrawingIds, lastMode |-> lastMode,
   clusterMode |-> clusterMode, reqQ |-> reqQ, doneQ |-> doneQ,
   effDeps |-> effDeps, posted |-> posted, knnPlaced |-> knnPlaced,
   posRef |-> posRef, targetRef |-> targetRef, oldRef |-> oldRef,
   delivered |-> delivered, knnOutcome |-> NoOutcome,
   dirty |-> {}, micro |-> <<>>]

\* Map objects are named by numbers.  An object that no field holds any more
\* cannot be written and is forgotten; the objects still held are named 1, 2, 3
\* in the order positions, targetPositions, oldPositions.
heldName(g, ref) ==
  IF ref = g.posRef THEN 1
  ELSE IF ref = g.targetRef THEN 2
  ELSE IF g.targetRef = g.posRef THEN 2
  ELSE 3

heldDelivered(g) ==
  [n \in {heldName(g, r) : r \in DOMAIN g.delivered \cap {g.posRef, g.targetRef, g.oldRef}} |->
     g.delivered[CHOOSE r \in DOMAIN g.delivered \cap {g.posRef, g.targetRef, g.oldRef} :
                   heldName(g, r) = n]]

Commit(g) ==
  /\ drawings' = g.drawings
  /\ pendingNewDrawingPosition' = g.pending
  /\ positions' = g.positions
  /\ targetPositions' = g.targetPositions
  /\ oldPositions' = g.oldPositions
  /\ isComputing' = g.isComputing
  /\ isAnimatingPositions' = g.isAnimatingPositions
  /\ isFirstLoad' = g.isFirstLoad
  /\ umapDrawingSnapshot' = g.snapshot
  /\ lastEmbeddings' = g.lastEmbeddings
  /\ lastDrawingIds' = g.lastDrawingIds
  /\ lastDrawingsLength' = g.lastDrawingsLength
  /\ trackedDrawingIds' = g.tracked
  /\ lastMode' = g.lastMode
  /\ clusterMode' = g.clusterMode
  /\ reqQ' = g.reqQ
  /\ doneQ' = g.doneQ
  /\ effDeps' = g.effDeps
  /\ posted' = g.posted
  /\ knnPlaced' = g.knnPlaced
  /\ posRef' = heldName(g, g.posRef)
  /\ targetRef' = heldName(g, g.targetRef)
  /\ oldRef' = heldName(g, g.oldRef)
  /\ delivered' = heldDelivered(g)
  /\ knnOutcome' = g.knnOutcome

IdsOf(ds) == [i \in 1..Len(ds) |-> ds[i].id]
IdSet(ds) == {ds[i].id : i \in 1..Len(ds)}
EmptyMap == [id \in {} |-> NoPoint]

\* positionsMap.set(id, point)
MapSet(m, id, pt) ==
  [x \in DOMAIN m \cup {id} |-> IF x = id THEN pt ELSE m[x]]

\* ---- Map objects ----
\* new Map() takes the least number that names no object the component holds
\* and no object it has delivered.
NoDelivered == [r \in {} |-> [then |-> EmptyMap, now |-> EmptyMap]]

newMap(g) ==
  CHOOSE r \in 1..(Cardinality(DOMAIN g.delivered) + 4) :
    /\ r \notin DOMAIN g.delivered \cup {g.posRef, g.targetRef, g.oldRef}
    /\ \A q \in 1..(r - 1) :
         q \in DOMAIN g.delivered \cup {g.posRef, g.targetRef, g.oldRef}

\* variant: the Map is not copied, the entries are set in the Map itself
copyInPlace(g, ref) == ref

\* new Map(source): a new object with the entries of the Map ref
copyMap(g, ref) == newMap(g)

\* the Map object ref now has the entries m
written(g, ref, m) ==
  IF ref \in DOMAIN g.delivered THEN [g EXCEPT !.delivered[ref].now = m] ELSE g

\* onPositionsComputed(map): the caller is handed the object ref
onPositionsComputed(g, ref, m) ==
  IF ref \in DOMAIN g.delivered THEN g
  ELSE [g EXCEPT !.delivered =
          [r \in DOMAIN @ \cup {ref} |->
             IF r = ref THEN [then |-> m, now |-> m] ELSE @[r]]]

\* runUMAP(useCustomParams): snapshot, isComputing = true, worker.postMessage
runUMAP(g, useCustomParams) ==
  IF Len(g.drawings) = 0 THEN g
  ELSE [g EXCEPT
          !.snapshot = g.drawings,
          !.isComputing = TRUE,
          !.reqQ = Append(@, [reqNo |-> g.posted + 1, ids |-> IdsOf(g.drawings),
                              custom |-> useCustomParams]),
          !.posted = @ + 1,
          !.knnPlaced = {},
          !.dirty = IF g.isComputing THEN @ ELSE @ \cup {"isComputing"}]

\* startPositionAnimation
startPositionAnimation(g) ==
  IF g.isAnimatingPositions THEN g ELSE [g EXCEPT !.isAnimatingPositions = TRUE]

\* variant: the batch counts as projected when one of its drawings is
someProjected(pos) == \E i \in 1..Len(pos) : pos[i] # NoPoint

\* allProjected after the loop over newDrawings
allProjectedOf(pos) == \A i \in 1..Len(pos) : pos[i] # NoPoint

\* the queueMicrotask callback of the drawings effect: k-NN projection of the
\* new drawings, or the fall-back to a full recompute
knnMicrotask(g) ==
  LET c == g.micro
      new == c.newDrawings
      pos == [i \in 1..Len(new) |->
                computePreviewPosition(new[i].px, g.drawings, g.positions,
                                       defaultWeights, NoCache).point]
      allProjected == allProjectedOf(pos)
      newPositions ==
        [id \in DOMAIN g.positions \cup IdSet(new) |->
           IF id \in IdSet(new)
             THEN pos[CHOOSE i \in 1..Len(new) : new[i].id = id]
             ELSE g.positions[id]]
      g0 == [g EXCEPT !.micro = <<>>,
                      !.lastDrawingsLength = c.currentLength,
                      !.tracked = c.currentIds]
      ref == copyMap(g, g.posRef)
  IN IF allProjected
       THEN onPositionsComputed(
              written([g0 EXCEPT !.positions = newPositions,
                                 !.posRef = ref,
                                 !.knnPlaced = @ \cup IdSet(new),
                                 !.dirty = @ \cup {"positions"}],
                      ref, newPositions),
              ref, newPositions)
       ELSE runUMAP(g0, FALSE)

\* the $effect that watches drawings and pendingNewDrawingPosition
\* (previewMode = false)
drawingsEffect(g) ==
  LET currentLength == Len(g.drawings)
      currentIds == IdSet(g.drawings)
      untracked == SelectSeq(g.drawings, LAMBDA d : d.id \notin g.tracked)
      pendingRead == currentLength = g.lastDrawingsLength + 1 /\ g.pending # NoPoint
      newCount == currentLength - g.lastDrawingsLength
      knnRead == newCount > 0 /\ newCount <= MAX_REALTIME_ADDITIONS_WITHOUT_UMAP
      deps0 == IF pendingRead \/ knnRead THEN {"positions"} ELSE {}
      deps1 == IF currentLength > 0 THEN deps0 \cup {"isComputing"} ELSE deps0
      ref == copyMap(g, g.posRef)
      newPositions == MapSet(g.positions, Head(untracked).id, g.pending)
  IN IF pendingRead /\ DOMAIN g.positions # {} /\ untracked # <<>> THEN
       onPositionsComputed(
         written([g EXCEPT !.positions = newPositions,
                           !.posRef = ref,
                           !.lastDrawingsLength = currentLength,
                           !.tracked = currentIds,
                           !.effDeps = {"positions"},
                           !.dirty = @ \cup {"positions"}],
                 ref, newPositions),
         ref, newPositions)
     ELSE IF knnRead /\ DOMAIN g.positions # {} /\ Len(untracked) = newCount THEN
       [g EXCEPT !.effDeps = {"positions"},
                 !.micro = [newDrawings |-> untracked,
                            currentLength |-> currentLength,
                            currentIds |-> currentIds]]
     ELSE IF currentLength > 0 /\ ~g.isComputing
               /\ currentLength # g.lastDrawingsLength THEN
       runUMAP([g EXCEPT !.lastDrawingsLength = currentLength,
                         !.tracked = currentIds,
                         !.effDeps = deps1], FALSE)
     ELSE [g EXCEPT !.effDeps = deps1]

\* what the microtask did: r is the state it left, g the state it found
observed(g, r) ==
  [r EXCEPT !.knnOutcome =
     [batch |-> IdSet(g.micro.newDrawings),
      projected |-> {id \in IdSet(g.micro.newDrawings) \cap DOMAIN r.positions :
                       r.positions[id] # NoPoint},
      kept |-> r.positions = g.positions,
      recompute |-> r.posted > g.posted]]

\* Effects run after the task that wrote a signal they read; the effect reads
\* drawings and pendingNewDrawingPosition on every run and the signals in
\* effDeps on its last run.  The microtask runs before any other task.
RECURSIVE settle(_, _)
settle(g, fuel) ==
  IF fuel = 0 \/ g.dirty \cap (g.effDeps \cup {"drawings", "pending"}) = {}
    THEN [g EXCEPT !.dirty = {}]
    ELSE LET g1 == drawingsEffect([g EXCEPT !.dirty = {}])
             g2 == IF g1.micro # <<>> THEN observed(g1, knnMicrotask(g1)) ELSE g1
         IN settle(g2, fuel - 1)

EffectFuel == 4

\* worker.onmessage, data.type === 'done'
doneHandler(g, msg, seed) ==
  LET umapDrawings == g.snapshot
      newPositions ==
        computePositionsForMode(umapDrawings, msg.embeddings, g.clusterMode,
                                Len(g.drawings) + 1, seed)
      ref == newMap(g)
      g1 == onPositionsComputed(
              [g EXCEPT !.lastEmbeddings = msg.embeddings,
                        !.lastDrawingIds = IdsOf(umapDrawings),
                        !.tracked = IdSet(umapDrawings),
                        !.lastDrawingsLength = Len(umapDrawings),
                        !.isComputing = FALSE,
                        !.dirty = IF g.isComputing THEN @ \cup {"isComputing"} ELSE @],
              ref, newPositions)
  IN IF g.isFirstLoad /\ DOMAIN g.positions = {} THEN
       [g1 EXCEPT !.isFirstLoad = FALSE, !.positions = newPositions,
                  !.posRef = ref,
                  !.dirty = @ \cup {"positions"}]
     ELSE IF DOMAIN g.positions # {} THEN
       startPositionAnimation(
         [g1 EXCEPT !.oldPositions = g.positions, !.oldRef = copyMap(g1, g.posRef),
                    !.targetPositions = newPositions, !.targetRef = ref])
     ELSE [g1 EXCEPT !.positions = newPositions, !.posRef = ref,
                     !.dirty = @ \cup {"positions"}]

\* animatePositions: one frame at positionAnimationProgress 1/2, or the last
interpolate(old, target) ==
  [id \in DOMAIN target |->
     IF id \in DOMAIN old
       THEN <<old[id][1] + (target[id][1] - old[id][1]) \div 2,
              old[id][2] + (target[id][2] - old[id][2]) \div 2>>
       ELSE <<target[id][1] \div 2, target[id][2] \div 2>>]

animatePositions(g, last) ==
  IF last
    THEN [g EXCEPT !.isAnimatingPositions = FALSE, !.positions = g.targetPositions,
                   !.posRef = g.targetRef,
                   !.dirty = @ \cup {"positions"}]
    ELSE [g EXCEPT !.positions = interpolate(g.oldPositions, g.targetPositions),
                   !.posRef = newMap(g),
                   !.dirty = @ \cup {"positions"}]

\* the $effect that watches clusterMode
modeEffect(g, seed) ==
  LET newMode == g.clusterMode IN
  IF newMode # g.lastMode /\ Len(g.lastEmbeddings) > 0 THEN
    IF Len(g.lastDrawingIds) # Len(g.drawings)
      THEN runUMAP([g EXCEPT !.lastMode = newMode], TRUE)
      ELSE startPositionAnimation(
             [g EXCEPT !.lastMode = newMode,
                       !.oldPositions = g.positions,
                       !.oldRef = copyMap([g EXCEPT !.targetRef = newMap(g)], g.posRef),
                       !.targetPositions =
                          computePositionsForMode(g.drawings, g.lastEmbeddings,
                                                  newMode, Len(g.drawings) + 1, seed),
                       !.targetRef = newMap(g)])
  ELSE [g EXCEPT !.lastMode = newMode]

\* handleRecluster
handleRecluster(g) ==
  IF g.isComputing \/ g.isAnimatingPositions THEN g ELSE runUMAP(g, TRUE)

\* the embedding the UMAP worker answers a request of n vectors with
umapResult(n, seed) ==
  LET e == runUMAPEntry([n |-> n, iters |-> 1, fault |-> "none", seed |-> seed])
  IN IF n = 0 THEN <<>>
     ELSE IF n = 1 THEN << <<0, 0>> >>
     ELSE IF e.kind = "return" THEN e.emb
     ELSE optimizedLayout(n, seed)


\* ---- bounds of the gallery specification ----
MaxSingles == 6      \* drawings arriving one by one after the first load
MaxPosted == 3       \* no new user / network event once this many requests went out
MaxUserEvents == 1   \* saves + mode switches + recluster clicks in one run
MaxDrawings == 8     \* drawings the page ever holds
GallerySeeds == 0..1
OwnKinds == {"half"}

\* What the server delivers in one run: a sequence of batches of equal drawings
Batch(k, px) == [k |-> k, px |-> px]
Feeds ==
  { [i \in 1..(MaxSingles + 1) |-> Batch(1, "black")],
    <<Batch(1, "black"), Batch(1, "blank"), Batch(1, "blank"), Batch(1, "black")>>,
    <<Batch(2, "black"), Batch(2, "black"), Batch(1, "blank")>>,
    <<Batch(1, "black"), Batch(MAX_REALTIME_ADDITIONS_WITHOUT_UMAP + 1, "black")>>,
    <<Batch(MAX_REALTIME_ADDITIONS_WITHOUT_UMAP + 1, "black"), Batch(1, "half")>>,
    <<Batch(1, "blank"), Batch(1, "half"), Batch(2, "half")>> }

\* a batch of k equal drawings, newest first, behind which old follows
newBatch(k, px, old) ==
  [i \in 1..k |-> [id |-> Len(old) + k + 1 - i, px |-> px,
                    created |-> Len(old) + k + 1 - i]]

\* the ids of a batch that arrives while a request is outstanding
arrivedInFlight(batch) ==
  IF reqQ # <<>> \/ doneQ # <<>> THEN IdSet(batch) ELSE {}

\* +page.svelte: drawings = [newDrawing, ...drawings] (realtime insert, fetch)
DrawingsArrive ==
  /\ posted < MaxPosted
  /\ feed # <<>>
  /\ Len(drawings) + Head(feed).k <= MaxDrawings
  /\ feed' = Tail(feed)
  /\ inFlightBatch' = arrivedInFlight(newBatch(Head(feed).k, Head(feed).px, drawings))
  /\ Commit(settle([G EXCEPT !.drawings =
                               newBatch(Head(feed).k, Head(feed).px, drawings) \o drawings,
                             !.dirty = {"drawings"}], EffectFuel))
  /\ UNCHANGED <<ownPx, userEvents, nvars, wvars, hvars>>

\* +page.svelte handleSaveDrawing up to its await: the preview position of the
\* drawing being saved becomes the pending position
SaveStart ==
  /\ posted < MaxPosted
  /\ userEvents < MaxUserEvents
  /\ ownPx = "none"
  /\ Len(drawings) < MaxDrawings
  /\ userEvents' = userEvents + 1
  /\ \E px \in OwnKinds :
       LET pv == computePreviewPosition(px, drawings, positions,
                                       defaultWeights, NoCache).point IN
       /\ ownPx' = px
       /\ Commit(settle([G EXCEPT !.pending = IF pv # NoPoint THEN pv ELSE @,
                                  !.dirty = IF pv # NoPoint THEN {"pending"} ELSE {}],
                        EffectFuel))
  /\ UNCHANGED <<feed, inFlightBatch, nvars, wvars, hvars>>

\* handleSaveDrawing after the await, createDrawing succeeded
SaveDone ==
  /\ ownPx # "none"
  /\ Len(drawings) < MaxDrawings
  /\ ownPx' = "none"
  /\ inFlightBatch' = arrivedInFlight(newBatch(1, ownPx, drawings))
  /\ Commit(settle([G EXCEPT !.drawings = newBatch(1, ownPx, drawings) \o drawings,
                             !.dirty = {"drawings"}], EffectFuel))
  /\ UNCHANGED <<userEvents, feed, nvars, wvars, hvars>>

\* handleSaveDrawing after the await, createDrawing failed
SaveFail ==
  /\ ownPx # "none"
  /\ ownPx' = "none"
  /\ Commit(settle([G EXCEPT !.pending = NoPoint,
                             !.dirty = IF pendingNewDrawingPosition # NoPoint
                                         THEN {"pending"} ELSE {}], EffectFuel))
  /\ UNCHANGED <<userEvents, feed, inFlightBatch, nvars, wvars, hvars>>

\* the setTimeout of handleSaveDrawing: pendingNewDrawingPosition = null
ClearPending ==
  /\ ownPx = "none"
  /\ pendingNewDrawingPosition # NoPoint
  /\ Commit(settle([G EXCEPT !.pending = NoPoint, !.dirty = {"pending"}], EffectFuel))
  /\ UNCHANGED <<ownPx, userEvents, feed, inFlightBatch, nvars, wvars, hvars>>

\* the clusterMode prop changes; the mode effect runs
ToggleMode ==
  /\ posted < MaxPosted
  /\ userEvents < MaxUserEvents
  /\ userEvents' = userEvents + 1
  /\ \E seed \in GallerySeeds :
       Commit(settle(modeEffect(
                [G EXCEPT !.clusterMode = IF @ = "cluster" THEN "timeline" ELSE "cluster"],
                seed), EffectFuel))
  /\ UNCHANGED <<ownPx, feed, inFlightBatch, nvars, wvars, hvars>>

\* the recluster button
Recluster ==
  /\ posted < MaxPosted
  /\ userEvents < MaxUserEvents
  /\ Len(drawings) > 0
  /\ userEvents' = userEvents + 1
  /\ Commit(settle(handleRecluster(G), EffectFuel))
  /\ UNCHANGED <<ownPx, feed, inFlightBatch, nvars, wvars, hvars>>

\* the UMAP worker takes the oldest request and posts its done message
WorkerRun ==
  /\ reqQ # <<>>
  /\ \E seed \in GallerySeeds :
       Commit([G EXCEPT !.reqQ = Tail(@),
                        !.doneQ = Append(@, [reqNo |-> Head(reqQ).reqNo,
                                             ids |-> Head(reqQ).ids,
                                             embeddings |->
                                               umapResult(Len(Head(reqQ).ids), seed)])])
  /\ UNCHANGED <<ownPx, userEvents, feed, inFlightBatch, nvars, wvars, hvars>>

\* worker.onmessage receives a done message
OnDone ==
  /\ doneQ # <<>>
  /\ \E seed \in GallerySeeds :
       Commit(settle(doneHandler([G EXCEPT !.doneQ = Tail(@)], Head(doneQ), seed),
                     EffectFuel))
  /\ UNCHANGED <<ownPx, userEvents, feed, inFlightBatch, nvars, wvars, hvars>>

\* requestAnimationFrame(animatePositions)
AnimFrame ==
  /\ isAnimatingPositions
  /\ \E last \in BOOLEAN : Commit(settle(animatePositions(G, last), EffectFuel))
  /\ UNCHANGED <<ownPx, userEvents, feed, inFlightBatch, nvars, wvars, hvars>>

\* ============================================================ feature vectors
\* A feature value is a fraction <<numerator, denominator>> of integers.  A
\* denominator of 0 is the NaN or Infinity that a division by zero, or an
\* arithmetic operation on undefined, produces in JavaScript.
Frac(n, d) == <<n, d>>
NaN == <<0, 0>>
isFiniteNumber(v) == v[2] # 0


\* the value of an array read outside the array
undefined == -1
\* arr[i] for a 0-based index i
at(arr, i) == IF i + 1 \in 1..Len(arr) THEN arr[i + 1] ELSE undefined

Cells == 0..(GRID_SIZE * GRID_SIZE - 1)
xOf(c) == c % GRID_SIZE
yOf(c) == c \div GRID_SIZE

\* sum of the x (y) coordinates of the cells of S
SumX(S) ==
  SumOver([x \in 0..(GRID_SIZE - 1) |-> x * Cardinality({c \in S : xOf(c) = x})],
          0..(GRID_SIZE - 1))
SumY(S) ==
  SumOver([y \in 0..(GRID_SIZE - 1) |-> y * Cardinality({c \in S : yOf(c) = y})],
          0..(GRID_SIZE - 1))

\* Math.sqrt, rounded down to an integer
sqrtFloor(n) ==
  CHOOSE r \in 0..(GRID_SIZE * GRID_SIZE) : r * r <= n /\ (r + 1) * (r + 1) > n

\* ---- palette.ts ----
COLOR_ENCODING == <<0, 255, 29, 145, 76, 178, 150, 200>>

\* COLOR_ENCODING[colorIndex] ?? COLOR_ENCODING[COLOR_WHITE]
getColorEncoding(colorIndex) ==
  IF colorIndex \in 0..(NUM_COLORS - 1) THEN COLOR_ENCODING[colorIndex + 1]
  ELSE COLOR_ENCODING[COLOR_WHITE + 1]

pixelsToEncodedValues(pixels) ==
  LET indices == IF isLegacyBWFormat(pixels) THEN convertLegacyPixels(pixels)
                 ELSE pixels
  IN Array([i \in 1..Len(indices) |-> getColorEncoding(indices[i])])

\* ---- Invariant features (64 values) ----
whiteEncoding == 255

\* 16x16 -> 8x8, each value the mean of a 2x2 block
downsample(pixels) ==
  Array([b \in 1..64 |->
     LET by == (b - 1) \div 8
         bx == (b - 1) % 8
         i == by * 2 * 16 + bx * 2
         q == <<at(pixels, i), at(pixels, i + 1), at(pixels, i + 16), at(pixels, i + 17)>>
     IN IF \E k \in 1..4 : q[k] = undefined THEN NaN
        ELSE Frac(q[1] + q[2] + q[3] + q[4], 4)])

\* Math.round(size / 2 - sum / weight)
roundedShift(size, sum, weight) ==
  ((size + 1) * weight - 2 * sum) \div (2 * weight)

\* variant: centerDrawing leaves the drawing where it is
centerDrawingOff(pixels, encodedValues) == encodedValues

centerDrawing(pixels, encodedValues) ==
  LET size == GRID_SIZE
      weighted == {c \in Cells : at(encodedValues, c) # whiteEncoding}
      totalWeight == Cardinality(weighted)
      shiftX == roundedShift(size, SumX(weighted), totalWeight)
      shiftY == roundedShift(size, SumY(weighted), totalWeight)
  IN IF totalWeight = 0 THEN encodedValues
     ELSE Array([i \in 1..(size * size) |->
             LET srcX == xOf(i - 1) - shiftX
                 srcY == yOf(i - 1) - shiftY
             IN IF srcX >= 0 /\ srcX < size /\ srcY >= 0 /\ srcY < size
                  THEN at(encodedValues, srcY * size + srcX)
                  ELSE whiteEncoding])

\* rotated[x * size + (size - 1 - y)] = pixels[y * size + x]
rotate90(pixels, size) ==
  Array([i \in 1..(size * size) |->
     LET r == (i - 1) \div size
         c == (i - 1) % size
     IN at(pixels, (size - 1 - c) * size + r)])

\* flipped[y * size + (size - 1 - x)] = pixels[y * size + x]
flipH(pixels, size) ==
  Array([i \in 1..(size * size) |->
     LET y == (i - 1) \div size
         c == (i - 1) % size
     IN at(pixels, y * size + (size - 1 - c))])

getAllVariants(pixels, size) ==
  LET r0 == pixels
      r1 == rotate90(r0, size)
      r2 == rotate90(r1, size)
      r3 == rotate90(r2, size)
  IN <<r0, flipH(r0, size), r1, flipH(r1, size),
       r2, flipH(r2, size), r3, flipH(r3, size)>>

extractInvariantFeatures(pixels) ==
  LET encodedValues == pixelsToEncodedValues(pixels)
      centered == centerDrawing(pixels, encodedValues)
      variants == getAllVariants(centered, GRID_SIZE)
      downsampledVariants == Array([v \in 1..8 |-> downsample(variants[v])])
  IN Array([i \in 1..64 |->
        IF \E v \in 1..8 : ~isFiniteNumber(downsampledVariants[v][i]) THEN NaN
        ELSE Frac(SumOver([v \in 1..8 |-> downsampledVariants[v][i][1]], 1..8), 4 * 8)])

\* ---- Enhanced features (102 values) ----
colorHistogram(pixels) ==
  [c \in 1..NUM_COLORS |->
     Frac(Cardinality({i \in 1..Len(pixels) : pixels[i] = c - 1}), Len(pixels))]

\* pixels[i] ?? COLOR_WHITE
orWhite(v) == IF v = undefined THEN COLOR_WHITE ELSE v

\* the (cell, right neighbour) and (cell, bottom neighbour) pairs of the grid
NeighbourPairs ==
  {<<c, c + 1>> : c \in {d \in Cells : xOf(d) < GRID_SIZE - 1}}
    \cup {<<c, c + GRID_SIZE>> : c \in {d \in Cells : yOf(d) < GRID_SIZE - 1}}

colorAdjacencyMatrix(pixels) ==
  LET col(c) == orWhite(at(pixels, c))
      valid(v) == v >= 0 /\ v < NUM_COLORS
      coloured == {<<col(p[1]), col(p[2])>> : p \in
                     {q \in NeighbourPairs : valid(col(q[1])) /\ valid(col(q[2]))}}
      count(a, b) == Cardinality({p \in NeighbourPairs : col(p[1]) = a /\ col(p[2]) = b})
      adj(a, b) == IF <<a, b>> \in coloured \/ <<b, a>> \in coloured
                     THEN count(a, b) + count(b, a) ELSE 0
      total == 2 * Cardinality({q \in NeighbourPairs : valid(col(q[1])) /\ valid(col(q[2]))})
      sum == IF total = 0 THEN 1 ELSE total
  IN [k \in 1..(NUM_COLORS * NUM_COLORS) |->
        Frac(adj((k - 1) \div NUM_COLORS, (k - 1) % NUM_COLORS), sum)]

symmetryFeatures(pixels) ==
  LET total == GRID_SIZE * GRID_SIZE
      p(x, y) == at(pixels, y * GRID_SIZE + x)
      n(mx, my, swap) ==
        Cardinality({c \in Cells :
          LET x == xOf(c)
              y == yOf(c)
          IN p(x, y) = (IF swap THEN p(y, x)
                        ELSE p(IF mx THEN GRID_SIZE - 1 - x ELSE x,
                               IF my THEN GRID_SIZE - 1 - y ELSE y))})
  IN <<Frac(n(TRUE, FALSE, FALSE), total), Frac(n(FALSE, TRUE, FALSE), total),
       Frac(n(FALSE, FALSE, TRUE), total), Frac(n(TRUE, TRUE, FALSE), total)>>

\* variant: the bounding-box aspect of an empty bounding box is 0
emptyAspectZero == Frac(0, 1)
\* bbHeight > 0 ? bbWidth / bbHeight : 1 -- the value for an empty bounding box
emptyAspect == Frac(1, 1)

structuralFeatures(pixels) ==
  LET nonWhite == {c \in Cells : at(pixels, c) # COLOR_WHITE}
      nonWhiteCount == Cardinality(nonWhite)
      edgeCount ==
        Cardinality({c \in nonWhite :
                       xOf(c) < GRID_SIZE - 1 /\ at(pixels, c + 1) # at(pixels, c)})
        + Cardinality({c \in nonWhite :
                       yOf(c) < GRID_SIZE - 1 /\ at(pixels, c + GRID_SIZE) # at(pixels, c)})
      minX == SetMin({GRID_SIZE} \cup {xOf(c) : c \in nonWhite})
      maxX == SetMax({0} \cup {xOf(c) : c \in nonWhite})
      minY == SetMin({GRID_SIZE} \cup {yOf(c) : c \in nonWhite})
      maxY == SetMax({0} \cup {yOf(c) : c \in nonWhite})
      sumX == SumX(nonWhite)
      sumY == SumY(nonWhite)
      total == GRID_SIZE * GRID_SIZE
      bbWidth == IF maxX >= minX THEN maxX - minX + 1 ELSE 0
      bbHeight == IF maxY >= minY THEN maxY - minY + 1 ELSE 0
      bbAspect == IF bbHeight > 0 THEN Frac(bbWidth, bbHeight) ELSE emptyAspect
      \* sqrt((x - sumX/n)^2 + (y - sumY/n)^2) = sqrt((n x - sumX)^2 + (n y - sumY)^2) / n
      dist(c) == sqrtFloor((nonWhiteCount * xOf(c) - sumX) * (nonWhiteCount * xOf(c) - sumX)
                         + (nonWhiteCount * yOf(c) - sumY) * (nonWhiteCount * yOf(c) - sumY))
      dispersion ==
        IF nonWhiteCount > 0
          THEN Frac(SumOver([c \in nonWhite |-> dist(c)], nonWhite),
                    nonWhiteCount * nonWhiteCount * GRID_SIZE)
          ELSE Frac(0, 1)
  IN <<Frac(nonWhiteCount, total),
       Frac(edgeCount, 2 * (GRID_SIZE - 1) * GRID_SIZE),
       Frac(bbAspect[1], bbAspect[2] * 2),
       Frac(bbWidth * bbHeight, total),
       dispersion,
       Frac(nonWhiteCount, total)>>

\* the cells floodFill pushes for cell c
floodNeighbours(c) ==
  (IF xOf(c) > 0 THEN {c - 1} ELSE {})
    \cup (IF xOf(c) < GRID_SIZE - 1 THEN {c + 1} ELSE {})
    \cup (IF yOf(c) > 0 THEN {c - GRID_SIZE} ELSE {})
    \cup (IF yOf(c) < GRID_SIZE - 1 THEN {c + GRID_SIZE} ELSE {})

\* floodFill(start, color): the cells it marks visited
RECURSIVE floodFill(_, _, _)
floodFill(pixels, region, color) ==
  LET next == region \cup {d \in UNION {floodNeighbours(c) : c \in region} :
                             at(pixels, d) = color}
  IN IF next = region THEN region ELSE floodFill(pixels, next, color)

RECURSIVE componentSizes(_, _)
componentSizes(pixels, unvisited) ==
  IF unvisited = {} THEN <<>>
  ELSE LET i == SetMin(unvisited)
           region == floodFill(pixels, {i}, at(pixels, i))
       IN <<Cardinality(region)>> \o componentSizes(pixels, unvisited \ region)

RECURSIVE SumSeq(_)
SumSeq(s) == IF s = <<>> THEN 0 ELSE Head(s) + SumSeq(Tail(s))

connectedComponentFeatures(pixels) ==
  LET sizes == componentSizes(pixels,
                 {c \in 0..(Len(pixels) - 1) : at(pixels, c) # COLOR_WHITE})
      total == Len(pixels)
      numComponents == Len(sizes)
      range == {sizes[k] : k \in 1..numComponents}
  IN IF numComponents = 0 THEN <<Frac(0, 1), Frac(0, 1), Frac(0, 1), Frac(0, 1)>>
     ELSE <<IF numComponents >= 10 THEN Frac(1, 1) ELSE Frac(numComponents, 10),
            Frac(SetMax(range), total),
            Frac(SetMin(range), total),
            Frac(SumSeq(sizes), numComponents * total)>>

downsampledSpatial(pixels) ==
  LET blockSize == GRID_SIZE \div 4
  IN [b \in 1..16 |->
        LET by == (b - 1) \div 4
            bx == (b - 1) % 4
        IN Frac(Cardinality({c \in Cells :
                   /\ xOf(c) \div blockSize = bx
                   /\ yOf(c) \div blockSize = by
                   /\ at(pixels, c) # COLOR_WHITE}),
                blockSize * blockSize)]

\* features.map(f => f * weight)
applyWeight(features, weight) ==
  [i \in 1..Len(features) |-> Frac(features[i][1] * weight, features[i][2])]

extractEnhancedFeatures(pixels, weights) ==
  LET normalized == Array(normalizePixels(pixels))
  IN applyWeight(colorHistogram(normalized), weights.colorHist)
       \o applyWeight(colorAdjacencyMatrix(normalized), weights.adjacency)
       \o applyWeight(symmetryFeatures(normalized), weights.symmetry)
       \o applyWeight(structuralFeatures(normalized), weights.structure)
       \o applyWeight(connectedComponentFeatures(normalized), weights.components)
       \o applyWeight(downsampledSpatial(normalized), weights.spatial)


\* ---- drawings handed to the extractors ----
MaxShift == 3        \* largest translation, in cells, along one axis

blankDrawing == Array([i \in 1..(GRID_SIZE * GRID_SIZE) |-> COLOR_WHITE])

\* a shape is a set of <<x, y, colour>>; the drawing with the shape at off
drawShape(shape, off) ==
  Array([i \in 1..(GRID_SIZE * GRID_SIZE) |->
     LET hit == {s \in shape : s[1] + off[1] = xOf(i - 1) /\ s[2] + off[2] = yOf(i - 1)}
     IN IF hit = {} THEN COLOR_WHITE ELSE (CHOOSE s \in hit : TRUE)[3]])

Shapes ==
  { {<<0, 0, 0>>},
    {<<0, 0, 0>>, <<1, 0, 0>>},
    {<<0, 0, 0>>, <<1, 0, 0>>, <<0, 1, 0>>},
    {<<0, 0, 2>>, <<1, 0, 4>>, <<1, 1, 4>>},
    {<<0, 0, 0>>, <<2, 0, 6>>, <<0, 1, 0>>, <<1, 2, 3>>},
    {<<0, 0, 0>>, <<4, 0, 0>>, <<5, 0, 0>>} }
Offsets == {<<0, 0>>, <<3, 5>>, <<7, 7>>, <<10, 2>>, <<10, 10>>}

\* the legacy black-and-white format: 0 is black, 255 is white
legacyDrawing(blackCells) ==
  Array([i \in 1..(GRID_SIZE * GRID_SIZE) |-> IF (i - 1) \in blackCells THEN 0 ELSE 255])

FeatureInputs ==
  {drawShape(s, o) : s \in Shapes, o \in Offsets}
    \cup {blankDrawing, <<>>, SubSeq(blankDrawing, 1, GRID_SIZE * GRID_SIZE - 1),
          SubSeq(drawShape({<<0, 0, 0>>}, <<7, 7>>), 1, GRID_SIZE * (GRID_SIZE - 1)),
          blankDrawing \o <<COLOR_BLACK>>,
          [i \in 1..(GRID_SIZE * GRID_SIZE) |-> IF i = 1 THEN NUM_COLORS - 1 ELSE -1],
          legacyDrawing({}), legacyDrawing({35, 36, 52})}

WeightChoices == {featureWeights(c, s, t) : c \in 0..1, s \in 0..1, t \in 0..1}

\* the value the background has in the array's own format
backgroundOf(pixels) == IF isLegacyBWFormat(pixels) THEN 255 ELSE COLOR_WHITE
isBackground(pixels, c) == pixelsToEncodedValues(pixels)[c + 1] = whiteEncoding
isDrawing(pixels) == Len(pixels) = GRID_SIZE * GRID_SIZE

\* the drawing moved by (dx, dy) cells
shiftDrawing(pixels, dx, dy) ==
  Array([i \in 1..(GRID_SIZE * GRID_SIZE) |->
     LET srcX == xOf(i - 1) - dx
         srcY == yOf(i - 1) - dy
     IN IF srcX \in 0..(GRID_SIZE - 1) /\ srcY \in 0..(GRID_SIZE - 1)
          THEN pixels[srcY * GRID_SIZE + srcX + 1]
          ELSE backgroundOf(pixels)])
staysInside(pixels, dx, dy) ==
  \A c \in Cells : ~isBackground(pixels, c) =>
     /\ xOf(c) + dx \in 0..(GRID_SIZE - 1)
     /\ yOf(c) + dy \in 0..(GRID_SIZE - 1)
Shifts == {<<1, 0>>, <<0, 1>>, <<-1, -1>>, <<MaxShift, -2>>, <<-2, MaxShift>>}

\* ---- one step per call of an extractor ----
ExtractEnhanced ==
  /\ fPc = "input"
  /\ \E w \in WeightChoices :
       /\ fWeights' = w
       /\ fEnh' = extractEnhancedFeatures(fIn, w)
  /\ fPc' = "enhanced"
  /\ UNCHANGED <<fIn, fInv, fOther, fInvOther, nvars, wvars, gvars, pvars, rvars, ovars>>

ExtractInvariant ==
  /\ fPc = "input"
  /\ fInv' = extractInvariantFeatures(fIn)
  /\ fPc' = "invariant"
  /\ UNCHANGED <<fIn, fEnh, fWeights, fOther, fInvOther, nvars, wvars, gvars, pvars, rvars, ovars>>

\* the extractor applied to one of the 8 orientation variants of the drawing
ExtractOrientation ==
  /\ fPc = "invariant"
  /\ isDrawing(fIn)
  /\ \E k \in 1..8 :
       LET px == getAllVariants(fIn, GRID_SIZE)[k] IN
       /\ fOther' = [kind |-> "orientation", px |-> px]
       /\ fInvOther' = extractInvariantFeatures(px)
  /\ fPc' = "compared"
  /\ UNCHANGED <<fIn, fEnh, fWeights, fInv, nvars, wvars, gvars, pvars, rvars, ovars>>

\* the extractor applied to a translate of the drawing
ExtractShifted ==
  /\ fPc = "invariant"
  /\ isDrawing(fIn)
  /\ \E d \in Shifts :
       /\ staysInside(fIn, d[1], d[2])
       /\ LET px == shiftDrawing(fIn, d[1], d[2]) IN
            /\ fOther' = [kind |-> "shifted", px |-> px]
            /\ fInvOther' = extractInvariantFeatures(px)
  /\ fPc' = "compared"
  /\ UNCHANGED <<fIn, fEnh, fWeights, fInv, nvars, wvars, gvars, pvars, rvars, ovars>>

\* ---- the incremental projector called on its own ----
\* drawings of the given kinds, newest first, those of placed having a position
Scene(kinds, placed) ==
  [ds |-> [i \in 1..Len(kinds) |-> [id |-> i, px |-> kinds[i], created |-> i]],
   pos |-> [id \in placed |-> <<100 * id, 40 * id * id>>]]

PreviewScenes ==
  { Scene(<<"black", "half", "black", "blank", "half", "black">>, 1..6),
    Scene(<<"half", "black", "half", "black", "blank", "black", "half">>, 2..7),
    Scene(<<"black", "half">>, 1..2),
    Scene(<<"black", "half", "blank">>, {}),
    Scene(<<"half", "half", "half", "half", "half", "black">>, {6}),
    Scene(<<"blank", "blank">>, 1..2) }

\* computePreviewPosition(pixels), from the preview effect or the k-NN microtask
PreviewCall ==
  /\ pvPc \in {"idle", "returned"}
  /\ \E px \in PreviewKinds :
       LET r == computePreviewPosition(px, pvDrawings, pvPositions, pvWeights,
                                       cachedDrawingFeatures) IN
       /\ pvIn' = px
       /\ pvOut' = r.point
       /\ cachedDrawingFeatures' = r.cache
  /\ pvPc' = "returned"
  /\ UNCHANGED <<pvDrawings, pvPositions, pvWeights, nvars, wvars, gvars, fvars, rvars, ovars>>

\* the control panel flips clusterWeightColor, ...Shape or ...Style
SwitchWeight ==
  /\ pvPc \in {"idle", "returned"}
  /\ \E g \in FeatureGroups :
       LET c == groupWeight(pvWeights, "color")
           s == groupWeight(pvWeights, "shape")
           t == groupWeight(pvWeights, "style")
       IN pvWeights' = featureWeights(IF g = "color" THEN 1 - c ELSE c,
                                      IF g = "shape" THEN 1 - s ELSE s,
                                      IF g = "style" THEN 1 - t ELSE t)
  /\ pvPc' = "idle"
  /\ UNCHANGED <<pvDrawings, pvPositions, cachedDrawingFeatures, pvIn, pvOut,
                 nvars, wvars, gvars, fvars, rvars, ovars>>

\* ================================================= UMAP worker, n >= 6
\* Distances and weights are in thousandths.
UMAP_MAX_NEIGHBORS == 15
negativeSampleRate == 5

\* squaredDistance(a, b)
squaredDistance(a, b) ==
  SumOver([i \in 1..Len(a) |-> (a[i] - b[i]) * (a[i] - b[i])], 1..Len(a))

\* Math.sqrt(d.dist)
sqrtMilli(d) == sqrtBetween(d * 1000000, 0, 46340)

\* k = Math.min(config.nNeighbors, Math.floor((n - 1) / 2), 15)
neighborCount(n, nNeighbors) ==
  Min(Min(nNeighbors, (n - 1) \div 2), UMAP_MAX_NEIGHBORS)

\* variant: the item itself is a candidate too
distsWithSelf(data, i) ==
  [j \in 1..Len(data) |-> [idx |-> j, dist |-> squaredDistance(data[i], data[j])]]

\* dists: { idx, dist } of every j with i !== j, in the order of j
distsFrom(data, i) ==
  SelectSeq([j \in 1..Len(data) |->
               [idx |-> j, dist |-> squaredDistance(data[i], data[j])]],
            LAMBDA d : d.idx # i)

\* the partial sort: k times, take the first entry of least dist out of dists
RECURSIVE selectNearest(_, _)
selectNearest(dists, k) ==
  IF k <= 0 \/ dists = <<>> THEN <<>>
  ELSE LET minIdx == CHOOSE p \in 1..Len(dists) :
                       /\ \A q \in 1..Len(dists) : dists[q].dist >= dists[p].dist
                       /\ \A q \in 1..(p - 1) : dists[q].dist > dists[p].dist
       IN <<dists[minIdx]>>
            \o selectNearest(SubSeq(dists, 1, minIdx - 1)
                               \o SubSeq(dists, minIdx + 1, Len(dists)), k - 1)

kNeighborsOf(data, k) ==
  Array([i \in 1..Len(data) |-> selectNearest(distsFrom(data, i), k)])

neighborsFrom(k, kNeighbors) ==
  [k |-> k,
   indices |-> Array([i \in 1..Len(kNeighbors) |->
                 Array([m \in 1..Len(kNeighbors[i]) |-> kNeighbors[i][m].idx])]),
   distances |-> Array([i \in 1..Len(kNeighbors) |->
                   Array([m \in 1..Len(kNeighbors[i]) |->
                            sqrtMilli(kNeighbors[i][m].dist)])])]

\* findKNearestNeighbors(data, k)
findKNearestNeighbors(data, k) == neighborsFrom(k, kNeighborsOf(data, k))

\* Math.exp(-x) for x in thousandths: the series 1 - x + x^2/2 - ... up to the
\* term t of index n, for x <= 1
RECURSIVE expSeries(_, _, _)
expSeries(x, t, n) ==
  IF n > 9 \/ t = 0 THEN 0
  ELSE (IF n % 2 = 0 THEN t ELSE -t) + expSeries(x, (t * x) \div (1000 * (n + 1)), n + 1)

squareMilli(h) == (h * h) \div 1000

RECURSIVE expNeg(_)
expNeg(x) ==
  IF x > 1000 THEN squareMilli(expNeg(x \div 2)) ELSE expSeries(x, 1000, 0)

\* rho: the distance to the nearest neighbour
rhoOf(localDists) == IF Len(localDists) > 0 THEN localDists[1] ELSE 0

sigmaFrom(s) == IF s <= 0 THEN 1000 ELSE s

\* sigma: the largest neighbour distance minus rho, 1 if that is not positive
sigmaOf(localDists) ==
  IF Len(localDists) > 1
    THEN sigmaFrom(localDists[Len(localDists)] - rhoOf(localDists))
    ELSE 1000

\* w = Math.exp(-Math.max(0, localDists[k] - rho) / sigma)
weightOf(localDists, k) ==
  expNeg((Max(0, localDists[k] - rhoOf(localDists)) * 1000) \div sigmaOf(localDists))

\* variant: the key of an edge keeps the direction of the edge
edgeKeyDirected(i, j) == <<i, j>>

\* key = i < j ? `${i},${j}` : `${j},${i}`
edgeKey(i, j) == IF i < j THEN <<i, j>> ELSE <<j, i>>

\* the pairs (i, j = indices[i][k]) with their weights w, in the order the two
\* loops of computeMembershipStrengths reach them, from item i on
RECURSIVE pairsFrom(_, _, _)
pairsFrom(i, indices, distances) ==
  IF i > Len(indices) THEN <<>>
  ELSE Array([k \in 1..Len(indices[i]) |->
                [i |-> i, j |-> indices[i][k], w |-> weightOf(distances[i], k)]])
         \o pairsFrom(i + 1, indices, distances)

\* if (!seen.has(key)) { seen.add(key); ... push }: a pair is kept when no
\* pair before it has its key
keptPairs(pairs) ==
  SelectSeq(Array([t \in 1..Len(pairs) |->
                     [i |-> pairs[t].i, j |-> pairs[t].j, w |-> pairs[t].w,
                      first |-> \A u \in 1..(t - 1) :
                                  edgeKey(pairs[u].i, pairs[u].j)
                                    # edgeKey(pairs[t].i, pairs[t].j)]]),
            LAMBDA c : c.first)

graphOf(kept) ==
  [head |-> Array([e \in 1..Len(kept) |-> kept[e].i]),
   tail |-> Array([e \in 1..Len(kept) |-> kept[e].j]),
   weights |-> Array([e \in 1..Len(kept) |-> kept[e].w])]

\* computeMembershipStrengths(indices, distances)
computeMembershipStrengths(indices, distances) ==
  graphOf(keptPairs(pairsFrom(1, indices, distances)))

\* edgeOrder.sort((x, y) => weights[y] - weights[x]): the place of edge e
placeOf(weights, e) ==
  1 + Cardinality({f \in 1..Len(weights) :
                     weights[f] > weights[e] \/ (weights[f] = weights[e] /\ f < e)})

orderFrom(places) ==
  Array([q \in 1..Len(places) |-> CHOOSE e \in 1..Len(places) : places[e] = q])

edgeOrder(weights) ==
  orderFrom(Array([e \in 1..Len(weights) |-> placeOf(weights, e)]))

\* Math.max(-4, Math.min(4, gradCoefN))
clampGrad(coef) == Max(-4000, Min(4000, coef))

\* const k = Math.floor(Math.random() * n), for the draw-th draw
sampledPoint(n, seed, draw) == (RandomDraw(seed, draw) * n) \div 10 + 1

\* the negative sample p of the q-th edge processed in an epoch: the sampled
\* point k, the endpoint whose coordinates the sample changes (none when
\* k === i || k === j), and the clamped coefficient.  first is the number of
\* draws of Math.random() made before the epoch.
sampleOf(n, seed, first, e, i, j, q, p, coef) ==
  [edge |-> e, p |-> p,
   k |-> sampledPoint(n, seed, first + (q - 1) * negativeSampleRate + p),
   moved |-> IF sampledPoint(n, seed, first + (q - 1) * negativeSampleRate + p) \in {i, j}
               THEN {} ELSE {i},
   grad |-> clampGrad(coef)]

\* the negative samples of one epoch of optimizeLayout, in the order they are
\* drawn
epochSamples(n, graph, order, seed, first, coef) ==
  Array([s \in 1..(Len(order) * negativeSampleRate) |->
     sampleOf(n, seed, first, order[(s - 1) \div negativeSampleRate + 1],
              graph.head[order[(s - 1) \div negativeSampleRate + 1]],
              graph.tail[order[(s - 1) \div negativeSampleRate + 1]],
              (s - 1) \div negativeSampleRate + 1,
              ((s - 1) % negativeSampleRate) + 1, coef)])

\* ---- the steps of runUMAP on their own ----
MaxEpochs == 2
MaxItems == 33       \* so that floor((n - 1) / 2) exceeds 15
UMAPValues == {0, 1, 3}
UMAPData ==
  {<<<<0>>, <<a>>, <<b>>, <<c>>, <<d>>, <<e>>>> :
     a \in UMAPValues, b \in UMAPValues, c \in UMAPValues, d \in UMAPValues,
     e \in UMAPValues}
    \cup {[i \in 1..7 |-> <<i>>], [i \in 1..7 |-> <<0>>],
          [i \in 1..7 |-> <<(i * i) % 5, i % 3>>],
          [i \in 1..MaxItems |-> <<(i * i) % 41>>]}
UMAPConfigs == [nNeighbors : {1, 2, 3, 20}, nEpochs : {1, 200}]

\* values gradCoefN takes; it depends on the coordinates of the embedding,
\* which are not modelled
GradCoefs == {615, 4001, 807000}

\* runUMAP, Step 2
FindNeighbors ==
  /\ uPc = "start"
  /\ uNeighbors' = findKNearestNeighbors(uData,
                      neighborCount(Len(uData), uConfig.nNeighbors))
  /\ uPc' = "neighbors"
  /\ UNCHANGED <<uData, uConfig, uSeed, uGraph, uEpoch, uSamples,
                 nvars, wvars, gvars, fvars, pvars, rvars, svars>>

\* runUMAP, Step 3
BuildGraph ==
  /\ uPc = "neighbors"
  /\ uGraph' = computeMembershipStrengths(uNeighbors.indices, uNeighbors.distances)
  /\ uPc' = "graph"
  /\ UNCHANGED <<uData, uConfig, uSeed, uNeighbors, uEpoch, uSamples,
                 nvars, wvars, gvars, fvars, pvars, rvars, svars>>

\* one epoch of optimizeLayout; initializeEmbeddings has made 2 n draws
Epoch ==
  /\ uPc \in {"graph", "layout"}
  /\ uEpoch < Min(Min(uConfig.nEpochs, UMAP_MAX_EPOCHS), MaxEpochs)
  /\ \E coef \in GradCoefs :
       uSamples' = epochSamples(Len(uData), uGraph, edgeOrder(uGraph.weights), uSeed,
                     2 * Len(uData) + uEpoch * Len(uGraph.head) * negativeSampleRate,
                     coef)
  /\ uEpoch' = uEpoch + 1
  /\ uPc' = "layout"
  /\ UNCHANGED <<uData, uConfig, uSeed, uNeighbors, uGraph,
                 nvars, wvars, gvars, fvars, pvars, rvars, svars>>

\* ---- collision relaxation on its own ----
MaxRelax == 3
RelaxPoints == {<<x, y>> : x \in {-104, 0, 60, 104}, y \in {0, 104}}

\* position maps of two or three points, in insertion order
RelaxInputs ==
  {<<p, q>> : p \in RelaxPoints, q \in RelaxPoints}
    \cup {<<p, q, r>> : p \in RelaxPoints, q \in RelaxPoints, r \in RelaxPoints}
    \cup {<< <<300, 0>>, <<103, 0>>, <<208, 0>> >>}

\* resolveCollisions(map, MIN_SPACING), with the draws of Math.random() taken
\* from seed
Relax ==
  /\ rcPc \in {"ready", "relaxed"}
  /\ rcRuns < MaxRelax
  /\ \E seed \in GallerySeeds :
       /\ rcPts' = resolveCollisions(rcPts, MIN_SPACING, seed)
       /\ rcSeed' = seed
  /\ rcIn' = rcPts
  /\ rcRuns' = rcRuns + 1
  /\ rcPc' = "relaxed"
  /\ UNCHANGED <<nvars, wvars, gvars, fvars, pvars, ovars>>

\* ============================================== POST /api/drawings
\* ---- values of a JSON body: [t, v], v a sequence ----
\* a string is its characters, a number is <<n>> with n in tenths, an array is
\* its elements (numbers in tenths, or values)
Undefined == [t |-> "undefined", v |-> <<>>]
Str(chars) == [t |-> "string", v |-> chars]
Num(tenths) == [t |-> "number", v |-> <<tenths>>]
Arr(elems) == [t |-> "array", v |-> elems]

\* Boolean(v)
truthy(v) ==
  CASE v.t = "undefined" -> FALSE
    [] v.t = "string" -> Len(v.v) > 0
    [] v.t = "number" -> v.v[1] # 0
    [] OTHER -> TRUE

Whitespace == {" ", "\t", "\n"}

RECURSIVE trimStart(_)
trimStart(s) ==
  IF Len(s) > 0 /\ s[1] \in Whitespace THEN trimStart(Tail(s)) ELSE s

RECURSIVE trimEnd(_)
trimEnd(s) ==
  IF Len(s) > 0 /\ s[Len(s)] \in Whitespace
    THEN trimEnd(SubSeq(s, 1, Len(s) - 1)) ELSE s

\* String.prototype.trim
trim(s) == trimEnd(trimStart(s))

DRAWING_NAME_MAX_LENGTH == 40
TOTAL_PIXELS == GRID_SIZE * GRID_SIZE

GRID_CHAR_MAP ==
  "." :> COLOR_WHITE @@ "#" :> 0 @@ "b" :> 2 @@ "s" :> 3 @@ "r" :> 4 @@ "p" :> 5
    @@ "g" :> 6 @@ "m" :> 7 @@ " " :> COLOR_WHITE @@ "_" :> COLOR_WHITE @@ "X" :> 0
    @@ "B" :> 2 @@ "S" :> 3 @@ "R" :> 4 @@ "P" :> 5 @@ "G" :> 6 @@ "M" :> 7

\* the result of a parser: pixels, or an error message
Parsed(pixels) == [ok |-> TRUE, pixels |-> pixels]
ParseError == [ok |-> FALSE, pixels |-> <<>>]

\* grid: a sequence of rows, each the characters of a string
parsePixelGrid(grid) ==
  IF Len(grid) # GRID_SIZE THEN ParseError
  ELSE IF \E y \in 1..GRID_SIZE :
            \/ Len(grid[y]) # GRID_SIZE
            \/ \E x \in 1..GRID_SIZE : grid[y][x] \notin DOMAIN GRID_CHAR_MAP
    THEN ParseError
  ELSE Parsed(Array([i \in 1..TOTAL_PIXELS |->
                  GRID_CHAR_MAP[grid[((i - 1) \div GRID_SIZE) + 1][((i - 1) % GRID_SIZE) + 1]]]))

DigitChars == <<"0", "1", "2", "3", "4", "5", "6", "7", "8", "9">>

isDigit(ch) == \E d \in 1..10 : DigitChars[d] = ch

\* parseInt(ch, 10) of one character that is a digit
parseDigit(ch) == (CHOOSE d \in 1..10 : DigitChars[d] = ch) - 1

parsePixelString(str) ==
  IF Len(str) # TOTAL_PIXELS THEN ParseError
  ELSE IF \E i \in 1..Len(str) :
            ~isDigit(str[i]) \/ parseDigit(str[i]) >= NUM_COLORS
    THEN ParseError
  ELSE Parsed(Array([i \in 1..Len(str) |-> parseDigit(str[i])]))

\* Number.isInteger of a number held in tenths
isInteger(tenths) == tenths % 10 = 0

\* TRUE where the code returns null
validatePixelArray(pixels) ==
  /\ Len(pixels) = TOTAL_PIXELS
  /\ \A i \in 1..Len(pixels) :
       isInteger(pixels[i]) /\ pixels[i] >= 0 /\ pixels[i] < NUM_COLORS * 10

\* the response of POST and what it did to the table
Answer(status, insert, row) == [status |-> status, insert |-> insert, row |-> row]
BadRequest == Answer(400, "none", <<>>)
\* an exception leaves the handler: the server answers 500
Unhandled == Answer(500, "none", <<>>)

\* supabase.from('drawings').insert(...): dbOk is the database's answer
insertDrawing(name, creator, resolvedPixels, dbOk) ==
  IF dbOk
    THEN Answer(201, "stored",
                <<[name |-> trim(name.v), creator |-> trim(creator.v),
                   pixels |-> resolvedPixels]>>)
    ELSE Answer(500, "failed", <<>>)

everyString(elems) == \A r \in 1..Len(elems) : elems[r].t = "string"

\* POST, the pixel_grid branch
resolveGrid(body, dbOk) ==
  IF body.pixel_grid.t = "array" /\ everyString(body.pixel_grid.v)
       /\ parsePixelGrid([r \in 1..Len(body.pixel_grid.v) |-> body.pixel_grid.v[r].v]).ok
    THEN insertDrawing(body.name, body.creator,
           parsePixelGrid([r \in 1..Len(body.pixel_grid.v) |-> body.pixel_grid.v[r].v]).pixels,
           dbOk)
    ELSE BadRequest

\* POST, from the choice of the format on
resolvePixels(body, dbOk) ==
  LET formatCount ==
        Cardinality({f \in {"pixels", "pixel_string", "pixel_grid"} : truthy(body[f])})
  IN
  IF formatCount = 0 THEN BadRequest
  ELSE IF formatCount > 1 THEN BadRequest
  ELSE IF truthy(body.pixels) THEN
    IF body.pixels.t # "array" THEN BadRequest
    ELSE IF ~validatePixelArray(body.pixels.v) THEN BadRequest
    ELSE insertDrawing(body.name, body.creator,
           Array([i \in 1..TOTAL_PIXELS |-> body.pixels.v[i] \div 10]), dbOk)
  ELSE IF truthy(body.pixel_string) THEN
    IF body.pixel_string.t # "string" THEN BadRequest
    ELSE IF ~parsePixelString(body.pixel_string.v).ok THEN BadRequest
    ELSE insertDrawing(body.name, body.creator,
           parsePixelString(body.pixel_string.v).pixels, dbOk)
  ELSE resolveGrid(body, dbOk)

\* POST: RequestHandler
postDrawing(body, dbOk) ==
  IF body.json = "invalid" THEN BadRequest
  ELSE IF body.json = "null" THEN Unhandled
  ELSE IF ~truthy(body.name) \/ body.name.t # "string" \/ Len(trim(body.name.v)) = 0
    THEN BadRequest
  ELSE IF Len(trim(body.name.v)) > DRAWING_NAME_MAX_LENGTH THEN BadRequest
  ELSE IF ~truthy(body.creator) \/ body.creator.t # "string"
            \/ Len(trim(body.creator.v)) = 0
    THEN BadRequest
  ELSE resolvePixels(body, dbOk)

\* ---- requests ----
Repeat(ch, n) == Array([i \in 1..n |-> ch])

Names ==
  {Undefined, Str(<<>>), Str(<<" ">>), Str(<<"a">>), Num(70),
   Str(<<" ">> \o Repeat("a", DRAWING_NAME_MAX_LENGTH) \o <<" ">>),
   Str(Repeat("a", DRAWING_NAME_MAX_LENGTH + 1))}
Creators == {Undefined, Str(<<"\t">>), Str(<<"b", "o", "t">>), Num(10)}
PixelArrays ==
  {Undefined, Num(0), Str(<<"1">>), Arr(<<>>),
   Arr(Repeat(10, TOTAL_PIXELS)),
   Arr(Repeat(70, TOTAL_PIXELS - 1)),
   Arr(Repeat(0, TOTAL_PIXELS - 1) \o <<80>>),
   Arr(<<15>> \o Repeat(0, TOTAL_PIXELS - 1)),
   Arr(<<-10>> \o Repeat(0, TOTAL_PIXELS - 1))}
PixelStrings ==
  {Undefined, Str(<<>>), Num(50),
   Str(Repeat("7", TOTAL_PIXELS)),
   Str(Repeat("0", TOTAL_PIXELS + 1)),
   Str(Repeat("1", TOTAL_PIXELS - 1) \o <<"8">>),
   Str(<<"x">> \o Repeat("1", TOTAL_PIXELS - 1))}
GridRow(ch) == Str(Repeat(ch, GRID_SIZE))
PixelGrids ==
  {Undefined, Str(<<".">>),
   Arr(Repeat(GridRow("."), GRID_SIZE - 1) \o <<GridRow("M")>>),
   Arr(Repeat(GridRow("#"), GRID_SIZE - 1)),
   Arr(Repeat(GridRow("."), GRID_SIZE - 1) \o <<Str(Repeat("g", GRID_SIZE - 1))>>),
   Arr(Repeat(GridRow("."), GRID_SIZE - 1) \o <<Str(Repeat("_", GRID_SIZE - 1) \o <<"w">>)>>),
   Arr(Repeat(GridRow("."), GRID_SIZE - 1) \o <<Num(10)>>)}

Body(json, name, creator, pixels, pixel_string, pixel_grid) ==
  [json |-> json, name |-> name, creator |-> creator, pixels |-> pixels,
   pixel_string |-> pixel_string, pixel_grid |-> pixel_grid]
NoBody == Body("none", Undefined, Undefined, Undefined, Undefined, Undefined)

\* a body that is not JSON, or is JSON's null, has no fields
Bodies ==
  {Body("invalid", Undefined, Undefined, Undefined, Undefined, Undefined),
   Body("null", Undefined, Undefined, Undefined, Undefined, Undefined)}
    \cup {Body("object", n, c, p, s, g) :
            n \in Names, c \in Creators, p \in PixelArrays, s \in PixelStrings,
            g \in PixelGrids}

\* ---- one request ----
POST ==
  /\ sPc = "waiting"
  /\ \E body \in Bodies, dbOk \in BOOLEAN :
       LET answer == postDrawing(body, dbOk) IN
       /\ sBody' = body
       /\ sStatus' = answer.status
       /\ sInsert' = answer.insert
       /\ sRows' = sRows \o answer.row
  /\ sPc' = "answered"
  /\ UNCHANGED <<nvars, wvars, gvars, fvars, pvars, rvars, uvars>>

\* ========================================================== specifications
NormIdle == npIn = <<>> /\ npOut = <<>> /\ npPc = "off"

WorkerIdle ==
  /\ wAlg = "none" /\ wReq = NoRequest /\ wPc = "off" /\ wIter = 0 /\ wTotal = 0
  /\ wOut = <<>> /\ wBranch = "none" /\ wThrown = FALSE /\ wEscaped = FALSE
  /\ wCount = 0

\* the component is not part of the run
GalleryIdle ==
  /\ drawings = <<>> /\ pendingNewDrawingPosition = NoPoint /\ ownPx = "none"
  /\ positions = EmptyMap /\ targetPositions = EmptyMap /\ oldPositions = EmptyMap
  /\ isComputing = FALSE /\ isAnimatingPositions = FALSE /\ isFirstLoad = TRUE
  /\ umapDrawingSnapshot = <<>> /\ lastEmbeddings = <<>> /\ lastDrawingIds = <<>>
  /\ lastDrawingsLength = 0 /\ trackedDrawingIds = {}
  /\ lastMode = "cluster" /\ clusterMode = "cluster"
  /\ reqQ = <<>> /\ doneQ = <<>> /\ effDeps = {} /\ posted = 0 /\ knnPlaced = {}
  /\ userEvents = 0 /\ feed = <<>>
  /\ posRef = 1 /\ targetRef = 2 /\ oldRef = 3 /\ delivered = NoDelivered
  /\ knnOutcome = NoOutcome /\ inFlightBatch = {}

NoOther == [kind |-> "none", px |-> <<>>]

FeaturesIdle ==
  /\ fIn = <<>> /\ fPc = "off" /\ fEnh = <<>> /\ fWeights = featureWeights(1, 1, 1)
  /\ fInv = <<>> /\ fOther = NoOther /\ fInvOther = <<>>

\* the pure-function harnesses are not part of the run
PreviewIdle ==
  /\ pvDrawings = <<>> /\ pvPositions = EmptyMap /\ pvWeights = defaultWeights
  /\ cachedDrawingFeatures = NoCache /\ pvIn = "empty" /\ pvOut = NoPoint
  /\ pvPc = "off"

RelaxIdle == rcIn = <<>> /\ rcPts = <<>> /\ rcRuns = 0 /\ rcSeed = 0 /\ rcPc = "off"

NoNeighbors == [k |-> 0, indices |-> <<>>, distances |-> <<>>]
NoGraph == [head |-> <<>>, tail |-> <<>>, weights |-> <<>>]

UMAPIdle ==
  /\ uData = <<>> /\ uConfig = [nNeighbors |-> 0, nEpochs |-> 0] /\ uSeed = 0
  /\ uNeighbors = NoNeighbors /\ uGraph = NoGraph /\ uEpoch = 0
  /\ uSamples = <<>> /\ uPc = "off"

ServerIdle ==
  sBody = NoBody /\ sStatus = 0 /\ sInsert = "none" /\ sRows = <<>> /\ sPc = "off"

OthersIdle == UMAPIdle /\ ServerIdle

HarnessIdle == FeaturesIdle /\ PreviewIdle /\ RelaxIdle /\ OthersIdle

InitNormalize ==
  /\ npIn \in PixelInputs /\ npOut = <<>> /\ npPc = "input"
  /\ WorkerIdle
  /\ GalleryIdle
  /\ HarnessIdle

NextNormalize == Normalize
SpecNormalize == InitNormalize /\ [][NextNormalize]_vars

InitWorker ==
  /\ wAlg \in {"tsne", "umap"} /\ wReq = NoRequest /\ wPc = "idle"
  /\ wIter = 0 /\ wTotal = 0 /\ wOut = <<>> /\ wBranch = "none"
  /\ wThrown = FALSE /\ wEscaped = FALSE /\ wCount = 0
  /\ NormIdle
  /\ GalleryIdle
  /\ HarnessIdle

NextWorker == OnMessage \/ RunStart \/ Iterate \/ IterateThrows \/ RunReturn \/ Catch
SpecWorker == InitWorker /\ [][NextWorker]_vars

InitGallery ==
  /\ drawings = <<>> /\ pendingNewDrawingPosition = NoPoint /\ ownPx = "none"
  /\ positions = EmptyMap /\ targetPositions = EmptyMap /\ oldPositions = EmptyMap
  /\ isComputing = FALSE /\ isAnimatingPositions = FALSE /\ isFirstLoad = TRUE
  /\ umapDrawingSnapshot = <<>> /\ lastEmbeddings = <<>> /\ lastDrawingIds = <<>>
  /\ lastDrawingsLength = 0 /\ trackedDrawingIds = {}
  /\ lastMode = "cluster" /\ clusterMode = "cluster"
  /\ reqQ = <<>> /\ doneQ = <<>> /\ effDeps = {} /\ posted = 0 /\ knnPlaced = {}
  /\ userEvents = 0 /\ feed \in Feeds
  /\ posRef = 1 /\ targetRef = 2 /\ oldRef = 3 /\ delivered = NoDelivered
  /\ knnOutcome = NoOutcome /\ inFlightBatch = {}
  /\ NormIdle
  /\ WorkerIdle
  /\ HarnessIdle

NextGallery ==
  \/ DrawingsArrive \/ SaveStart \/ SaveDone \/ SaveFail \/ ClearPending
  \/ ToggleMode \/ Recluster \/ WorkerRun \/ OnDone \/ AnimFrame
SpecGallery == InitGallery /\ [][NextGallery]_vars

\* the worker answers every request (the WorkerRun steps), a posted message is
\* delivered (the OnDone steps), the position animation reaches its last
\* frame (the AnimFrame steps that end it) and the timer of the save fires
\* (the ClearPending steps)
SpecGalleryFair ==
  /\ InitGallery /\ [][NextGallery]_vars
  /\ WF_reqQ(reqQ # <<>> /\ reqQ' = Tail(reqQ))
  /\ WF_doneQ(doneQ # <<>> /\ doneQ' = Tail(doneQ))
  /\ WF_isAnimatingPositions(isAnimatingPositions /\ isAnimatingPositions' = FALSE)
  /\ WF_pendingNewDrawingPosition(
        ownPx = "none" /\ pendingNewDrawingPosition # NoPoint
          /\ pendingNewDrawingPosition' = NoPoint)

InitFeatures ==
  /\ fIn \in FeatureInputs /\ fPc = "input" /\ fEnh = <<>>
  /\ fWeights = featureWeights(1, 1, 1)
  /\ fInv = <<>> /\ fOther = NoOther /\ fInvOther = <<>>
  /\ PreviewIdle
  /\ RelaxIdle
  /\ OthersIdle
  /\ NormIdle
  /\ WorkerIdle
  /\ GalleryIdle

NextFeatures ==
  ExtractEnhanced \/ ExtractInvariant \/ ExtractOrientation \/ ExtractShifted
SpecFeatures == InitFeatures /\ [][NextFeatures]_vars

InitPreview ==
  /\ \E scene \in PreviewScenes :
       pvDrawings = scene.ds /\ pvPositions = scene.pos
  /\ pvWeights = defaultWeights /\ cachedDrawingFeatures = NoCache
  /\ pvIn = "empty" /\ pvOut = NoPoint /\ pvPc = "idle"
  /\ FeaturesIdle
  /\ RelaxIdle
  /\ OthersIdle
  /\ NormIdle
  /\ WorkerIdle
  /\ GalleryIdle

NextPreview == PreviewCall \/ SwitchWeight
SpecPreview == InitPreview /\ [][NextPreview]_vars

InitRelax ==
  /\ rcPts \in RelaxInputs /\ rcIn = rcPts /\ rcRuns = 0 /\ rcSeed = 0
  /\ rcPc = "ready"
  /\ FeaturesIdle
  /\ PreviewIdle
  /\ OthersIdle
  /\ NormIdle
  /\ WorkerIdle
  /\ GalleryIdle

NextRelax == Relax
SpecRelax == InitRelax /\ [][NextRelax]_vars

InitUMAP ==
  /\ uData \in UMAPData /\ uConfig \in UMAPConfigs /\ uSeed \in GallerySeeds
  /\ uNeighbors = NoNeighbors /\ uGraph = NoGraph /\ uEpoch = 0
  /\ uSamples = <<>> /\ uPc = "start"
  /\ ServerIdle
  /\ FeaturesIdle
  /\ PreviewIdle
  /\ RelaxIdle
  /\ NormIdle
  /\ WorkerIdle
  /\ GalleryIdle

NextUMAP == FindNeighbors \/ BuildGraph \/ Epoch
SpecUMAP == InitUMAP /\ [][NextUMAP]_vars

InitServer ==
  /\ sBody = NoBody /\ sStatus = 0 /\ sInsert = "none" /\ sRows = <<>>
  /\ sPc = "waiting"
  /\ NormIdle
  /\ WorkerIdle
  /\ GalleryIdle
  /\ FeaturesIdle /\ PreviewIdle /\ RelaxIdle /\ UMAPIdle

NextServer == POST
SpecServer == InitServer /\ [][NextServer]_vars

\* ================================================================== claims
NonLog(out) == SelectSeq(out, LAMBDA m : m.type # "log")
Count(out, t) == Len(SelectSeq(out, LAMBDA m : m.type = t))
LastMsg(out) == out[Len(out)]
InRange(emb, lo, hi) ==
  \A i \in 1..Len(emb) : emb[i][1] \in lo..hi /\ emb[i][2] \in lo..hi
FixedPair == << <<-5, 0>>, <<5, 0>> >>

\* C1 as the spec states it: everything a worker posts for a request is a
\* progress message or the single done message that ends the stream, and the
\* done message has one point per vector.
C1_ProgressThenOneDone ==
  /\ \A i \in 1..Len(wOut) : wOut[i].type \in {"progress", "done"}
  /\ wPc \in {"run", "loop", "catch"} => Count(wOut, "done") = 0
  /\ wPc = "finished" =>
       /\ Count(wOut, "done") = 1
       /\ LastMsg(wOut).type = "done"
       /\ Len(LastMsg(wOut).embeddings) = wReq.n

\* C1, amended: the UMAP worker also posts log messages, before and between
\* the others.  Log messages aside, a request's stream is zero or more progress
\* messages and then exactly one done message, which is the last message posted
\* and has one point per vector; the t-SNE worker posts no log message.
C1_ProgressThenOneDoneAsideFromLogs ==
  /\ \A i \in 1..Len(wOut) : wOut[i].type \in {"progress", "done", "log"}
  /\ wAlg = "tsne" => Count(wOut, "log") = 0
  /\ wPc \in {"run", "loop", "catch"} => Count(wOut, "done") = 0
  /\ wPc = "finished" =>
       /\ Count(wOut, "done") = 1
       /\ LastMsg(wOut).type = "done"
       /\ LastMsg(NonLog(wOut)).type = "done"
       /\ \A i \in 1..(Len(NonLog(wOut)) - 1) : NonLog(wOut)[i].type = "progress"
       /\ Len(LastMsg(wOut).embeddings) = wReq.n

C1_Witness ==
  /\ wPc = "finished" /\ wAlg = "umap" /\ wReq.n > UMAP_SMALL_N
  /\ Count(wOut, "progress") >= 2 /\ Count(wOut, "log") > 0

\* C2: when the optimiser throws, the handler still ends the request with
\* exactly one done message, carrying the random fallback with one point per
\* vector; no request ends without a done message and no exception leaves the
\* handler.
C2_ThrowEndsInFallbackDone ==
  /\ ~wEscaped
  /\ wThrown => wPc \in {"catch", "finished"}
  /\ wPc = "finished" => Count(wOut, "done") = 1 /\ LastMsg(wOut).type = "done"
  /\ (wThrown /\ wPc = "finished") =>
       /\ wBranch = "fallback"
       /\ Len(LastMsg(wOut).embeddings) = wReq.n
       /\ InRange(LastMsg(wOut).embeddings, -50, 50)

C2_Witness ==
  /\ wThrown /\ wPc = "finished" /\ wReq.fault = "loop"
  /\ wIter > 0 /\ Count(wOut, "progress") > 0

\* C7: for both workers a request of 0 vectors is answered with [] and one of
\* 1 vector with [[0,0]], at once: the optimiser is not entered and no
\* progress message is posted.
C7_EmptyAndSingle ==
  (wCount > 0 /\ wReq.n <= 1) =>
    /\ wPc = "finished"
    /\ wIter = 0 /\ wTotal = 0 /\ ~wThrown
    /\ Count(wOut, "progress") = 0
    /\ Count(wOut, "done") = 1
    /\ LastMsg(wOut).embeddings = IF wReq.n = 0 THEN <<>> ELSE << <<0, 0>> >>

C7_Witness ==
  wCount > 0 /\ wReq.n = 1 /\ wAlg = "tsne" /\ wPc = "finished"

\* C8 as the spec states it: the t-SNE worker answers a request of 2 vectors
\* with the fixed pair [[-5,0],[5,0]] and runs no iteration.
C8_TSNEPairIsFixed ==
  (wAlg = "tsne" /\ wReq.n = 2 /\ wReq.fault = "none" /\ wPc = "finished") =>
    /\ LastMsg(wOut).embeddings = FixedPair
    /\ wIter = 0
    /\ Count(wOut, "progress") = 0

\* C8, amended: the fixed pair is what the UMAP worker answers a request of 2
\* vectors with, without running an epoch.  The t-SNE worker has no case for 2
\* vectors: it runs the configured number of iterations, posts progress and
\* answers with the optimiser's layout.
C8_PairIsFixedOnUMAPOnly ==
  /\ (wAlg = "umap" /\ wReq.n = 2 /\ wPc = "finished") =>
       /\ LastMsg(wOut).embeddings = FixedPair
       /\ wBranch = "fixed2"
       /\ wIter = 0 /\ wTotal = 0 /\ ~wThrown
       /\ Count(wOut, "progress") = 0
  /\ (wAlg = "tsne" /\ wReq.n = 2 /\ wReq.fault = "none" /\ wPc = "finished") =>
       /\ wBranch = "optimized"
       /\ wIter = wReq.iters
       /\ Count(wOut, "progress") >= 1

C8_Witness ==
  wAlg = "umap" /\ wReq.n = 2 /\ wPc = "finished" /\ wReq.iters = MaxIters

\* C9 as the spec states it: the UMAP worker answers every request of at most
\* 5 vectors with a uniform random layout, without progress messages.
C9_SmallUMAPIsRandom ==
  (wAlg = "umap" /\ wCount > 0 /\ wReq.n <= UMAP_SMALL_N /\ wPc = "finished") =>
    /\ Count(wOut, "progress") = 0
    /\ wIter = 0
    /\ LastMsg(wOut).embeddings = randomLayout(wReq.n, wReq.seed)

\* C9, amended: the UMAP worker runs no epoch and posts no progress message
\* for a request of at most 5 vectors; the done message carries [] for 0
\* vectors, [[0,0]] for 1, the fixed pair for 2, and a uniform random layout
\* with coordinates in [-10, 10] only for 3, 4 and 5 vectors.
C9_SmallUMAPSkipsOptimiser ==
  (wAlg = "umap" /\ wCount > 0 /\ wReq.n <= UMAP_SMALL_N) =>
    /\ Count(wOut, "progress") = 0
    /\ wIter = 0 /\ wTotal = 0 /\ wPc \in {"run", "finished"} /\ ~wThrown
    /\ wPc = "finished" =>
         /\ Count(wOut, "done") = 1
         /\ Len(LastMsg(wOut).embeddings) = wReq.n
         /\ InRange(LastMsg(wOut).embeddings, -10, 10)
         /\ wReq.n = 0 => wBranch = "empty"
         /\ wReq.n = 1 => LastMsg(wOut).embeddings = << <<0, 0>> >>
         /\ wReq.n = 2 => LastMsg(wOut).embeddings = FixedPair
         /\ wReq.n >= 3 =>
              /\ wBranch = "random"
              /\ LastMsg(wOut).embeddings = randomLayout(wReq.n, wReq.seed)

C9_Witness ==
  /\ wAlg = "umap" /\ wReq.n = UMAP_SMALL_N /\ wPc = "finished"
  /\ wBranch = "random" /\ wReq.iters = MaxIters

\* C10 as the spec states it: the result has 256 entries in 0..7, the input's
\* in-range entries unchanged, its out-of-range entries and the padding 1.
C10_EntriesKeptOrBackground ==
  npPc = "done" =>
    /\ Len(npOut) = GRID_SIZE * GRID_SIZE
    /\ \A i \in 1..Len(npOut) :
         /\ npOut[i] \in 0..MaxColorIndex
         /\ npOut[i] = IF i > Len(npIn) THEN COLOR_WHITE
                       ELSE IF npIn[i] \in 0..MaxColorIndex THEN npIn[i]
                       ELSE COLOR_WHITE

\* C10, amended (arrays of integers): the result has 256 entries in 0..7 and
\* the padding is 1.  If no entry of the whole input is above 7, in-range
\* entries keep their value and negative ones become 1.  If any entry of the
\* input, even one beyond the first 256, is above 7, the input is read as
\* legacy grayscale: every entry up to 127 becomes 0 and every other one 1.
C10_EntriesKeptUnlessLegacy ==
  npPc = "done" =>
    LET legacy == \E j \in 1..Len(npIn) : npIn[j] > MaxColorIndex IN
    /\ Len(npOut) = GRID_SIZE * GRID_SIZE
    /\ \A i \in 1..Len(npOut) :
         /\ npOut[i] \in 0..MaxColorIndex
         /\ npOut[i] = IF i > Len(npIn) THEN COLOR_WHITE
                       ELSE IF legacy
                         THEN (IF npIn[i] <= LegacyThreshold THEN COLOR_BLACK
                               ELSE COLOR_WHITE)
                       ELSE IF npIn[i] \in 0..MaxColorIndex THEN npIn[i]
                       ELSE COLOR_WHITE

C10_Witness ==
  /\ npPc = "done"
  /\ Len(npIn) > GRID_SIZE * GRID_SIZE
  /\ \A j \in 1..(GRID_SIZE * GRID_SIZE) : npIn[j] <= MaxColorIndex
  /\ npIn[Len(npIn)] > MaxColorIndex
  /\ \E i \in 1..(GRID_SIZE * GRID_SIZE) : npIn[i] \in 2..MaxColorIndex /\ npOut[i] # npIn[i]

\* C3: at most one recompute request is outstanding: posted to the worker and
\* its done message not yet handled.
C3_OneRequestOutstanding == Len(reqQ) + Len(doneQ) <= 1

\* C4: handling the done message of a request that is not the latest one
\* issued, computed for other items than the latest snapshot holds, changes
\* neither the position map nor the stored embeddings nor the tracked ids.
C4_StaleDoneIgnored ==
  [][(/\ doneQ # <<>> /\ doneQ' = Tail(doneQ)
      /\ Head(doneQ).reqNo < posted
      /\ Head(doneQ).ids # IdsOf(umapDrawingSnapshot)) =>
       /\ positions' = positions
       /\ targetPositions' = targetPositions
       /\ lastEmbeddings' = lastEmbeddings
       /\ trackedDrawingIds' = trackedDrawingIds]_vars

\* C5: no more than 5 drawings are placed by k-NN projection after a recompute
\* request went out and before the next one.
C5_ProjectionsNotChained ==
  Cardinality(knnPlaced) <= MAX_REALTIME_ADDITIONS_WITHOUT_UMAP

\* C6: no two ids of the position map are at the same point.
C6_PositionsDistinct ==
  \A a, b \in DOMAIN positions : a # b => positions[a] # positions[b]

\* ---------------------------------------------------------------- C20
Progress(out) == SelectSeq(out, LAMBDA m : m.type = "progress")
ProgressEvery == IF wAlg = "tsne" THEN TSNE_PROGRESS_EVERY ELSE UMAP_PROGRESS_EVERY
\* the loop counters below wIter at which the period asks for a message
PeriodCounters == {it \in 0..(wIter - 1) : it % ProgressEvery = 0}
ProgressShape(p) ==
  /\ \A i \in 1..Len(p) : p[i].iteration <= p[i].totalIterations
  /\ \A i \in 1..(Len(p) - 1) : p[i].iteration < p[i + 1].iteration
  /\ \A it \in PeriodCounters : \E i \in 1..Len(p) : p[i].iteration = it + 1
  /\ \A i \in 1..Len(p) :
       \/ (p[i].iteration - 1) \in PeriodCounters
       \/ p[i].iteration = p[i].totalIterations

AllFinite(v) == \A i \in 1..Len(v) : isFiniteNumber(v[i])

\* C11: for every pixel array extractEnhancedFeatures returns exactly 102
\* entries and extractInvariantFeatures exactly 64, and no entry is NaN or
\* infinite.
C11_VectorsCompleteAndFinite ==
  /\ fPc = "enhanced" => Len(fEnh) = 102 /\ AllFinite(fEnh)
  /\ fPc \in {"invariant", "compared"} => Len(fInv) = 64 /\ AllFinite(fInv)

\* ---------------------------------------------------------------- C12
isZero(v) == v[1] = 0 /\ v[2] # 0
\* the 6 structural and the 4 connected-component entries of an Enhanced vector
structuralOf(v) == SubSeq(v, 77, 82)
componentsOf(v) == SubSeq(v, 83, 86)
isEmptyDrawing(pixels) == normalizePixels(pixels) = blankDrawing

\* C12 (as stated): for the all-background drawing each of the 6 structural
\* scalars and each of the 4 connected-component scalars is 0.
C12_EmptyDrawingScalarsZero ==
  (fPc = "enhanced" /\ isEmptyDrawing(fIn)) =>
     /\ \A i \in 1..6 : isZero(structuralOf(fEnh)[i])
     /\ \A i \in 1..4 : isZero(componentsOf(fEnh)[i])

\* C12 (amended): for the all-background drawing the structural scalars are 0
\* except the third, bounding-box aspect / 2, which is half the structure
\* weight; the 4 connected-component scalars are 0; none of them is NaN.
C12_EmptyDrawingScalarsZeroButAspect ==
  (fPc = "enhanced" /\ isEmptyDrawing(fIn)) =>
     /\ \A i \in {1, 2, 4, 5, 6} : isZero(structuralOf(fEnh)[i])
     /\ structuralOf(fEnh)[3][2] # 0
     /\ 2 * structuralOf(fEnh)[3][1] = fWeights.structure * structuralOf(fEnh)[3][2]
     /\ \A i \in 1..4 : isZero(componentsOf(fEnh)[i])

C12_Witness ==
  /\ fPc = "enhanced" /\ isEmptyDrawing(fIn) /\ fIn # blankDrawing
  /\ fWeights.structure = 1
  /\ ~isZero(structuralOf(fEnh)[3])

\* ---------------------------------------------------------------- C17
\* C17: extractInvariantFeatures returns the same 64 values for a drawing and
\* for each of its 8 orientation variants.
C17_OrientationInvariant ==
  (fPc = "compared" /\ fOther.kind = "orientation") => fInvOther = fInv

\* ---------------------------------------------------------------- C18
\* C18: extractInvariantFeatures returns the same 64 values for a drawing and
\* for the drawing moved by an integer shift that keeps all its non-background
\* pixels inside the grid.
C18_TranslationInvariant ==
  (fPc = "compared" /\ fOther.kind = "shifted") => fInvOther = fInv

C18_Witness ==
  /\ fPc = "compared" /\ fOther.kind = "shifted"
  /\ fOther.px # fIn
  /\ \E c \in Cells : ~isBackground(fIn, c) /\ xOf(c) >= GRID_SIZE - MaxShift
  /\ \E i \in 1..64 : fInv[i] # Frac(whiteEncoding * 32, 32)

\* ---------------------------------------------------------------- C13
\* the last call went past its early returns and read the cache
ReadCache ==
  /\ pvPc = "returned"
  /\ DOMAIN pvPositions # {} /\ pvIn # "empty" /\ hasContent(pvIn)

\* C13: every vector computePreviewPosition reads from cachedDrawingFeatures
\* equals extractEnhancedFeatures of that drawing's pixels under the weights in
\* force at the time of the call.
C13_CacheFollowsWeights ==
  ReadCache =>
    \A i \in 1..Len(pvDrawings) :
      cachedDrawingFeatures[pvDrawings[i].id]
        = enhancedFeatures(pvDrawings[i].px, pvWeights)

\* ---------------------------------------------------------------- C14
\* similarity of the last call's pixels to drawing i, as the call computed it
SimsOfCall ==
  [i \in 1..Len(pvDrawings) |->
     cosineSimilarity(enhancedFeatures(pvIn, pvWeights),
                      cachedDrawingFeatures[pvDrawings[i].id])] \o <<>>
SimOfCall(i) == SimsOfCall[i]
NothingToCompare ==
  \/ DOMAIN pvPositions = {}
  \/ pvIn = "empty"
  \/ pvIn = "blank"
  \/ LET sims == SimsOfCall
     IN \A i \in topNeighbours(sims, Min(PREVIEW_NEIGHBORS, Len(pvDrawings))) :
          pvDrawings[i].id \notin DOMAIN pvPositions \/ sims[i] = 0
IsPoint(p) == Len(p) = 2 /\ p[1] \in Int /\ p[2] \in Int

\* C14: a call of computePreviewPosition changes no position; it returns null
\* exactly when the position map is empty, the pixel array is empty, every
\* pixel is background or no selected neighbour contributes a positive weight,
\* and a finite point otherwise.
C14_NullIffNothingToCompare ==
  /\ [](pvPc = "returned" =>
          /\ (pvOut = NoPoint) <=> NothingToCompare
          /\ (pvOut # NoPoint) => IsPoint(pvOut))
  /\ [][pvPc' = "returned" => pvPositions' = pvPositions]_vars

C14_Witness ==
  /\ pvPc = "returned" /\ pvOut = NoPoint
  /\ DOMAIN pvPositions # {} /\ hasContent(pvIn)
  /\ \E i \in 1..Len(pvDrawings) :
       pvDrawings[i].id \in DOMAIN pvPositions /\ SimOfCall(i) = 0

\* ---------------------------------------------------------------- C15
PlacedOfCall == {i \in 1..Len(pvDrawings) : pvDrawings[i].id \in DOMAIN pvPositions}
\* the min(5, N) most similar of the N placed drawings
NearestPlaced ==
  LET k == Min(PREVIEW_NEIGHBORS, Cardinality(PlacedOfCall))
      sims == SimsOfCall
  IN {i \in PlacedOfCall :
        Cardinality({j \in PlacedOfCall :
                       sims[j] > sims[i] \/ (sims[j] = sims[i] /\ j < i)}) < k}
WeightedAverage(S) ==
  LET sims == SimsOfCall
      weight == [i \in S |-> (sims[i] * sims[i] + 999) \div 1000]
      total == SumOver(weight, S)
      wx == [i \in S |-> pvPositions[pvDrawings[i].id][1] * weight[i]]
      wy == [i \in S |-> pvPositions[pvDrawings[i].id][2] * weight[i]]
  IN <<SumOver(wx, S) \div total + hashOffset(pvIn)[1],
       SumOver(wy, S) \div total + hashOffset(pvIn)[2]>>

\* C15: the returned point is the similarity-squared weighted average of the
\* positions of the min(5, N) most similar of the N placed drawings, plus the
\* hash-derived offset.
C15_NearestPlacedAveraged ==
  (pvPc = "returned" /\ pvOut # NoPoint) => pvOut = WeightedAverage(NearestPlaced)

\* ---- C16 ----
\* every two points of the map are at least minDistance apart
WellSpaced(pts, minDistance) ==
  \A i, j \in DOMAIN pts :
    i < j => (pts[j][1] - pts[i][1]) * (pts[j][1] - pts[i][1])
               + (pts[j][2] - pts[i][2]) * (pts[j][2] - pts[i][2])
             >= minDistance * minDistance

\* C16: when every pair of points of a map is at least the minimum spacing
\* apart, a run of resolveCollisions leaves every position as it was, however
\* many runs came before
C16_RelaxationIdempotent ==
  (rcPc = "relaxed" /\ WellSpaced(rcIn, MIN_SPACING)) => rcPts = rcIn

\* a well-spaced map of three points is run at least a second time
C16_Witness ==
  /\ rcPc = "relaxed" /\ rcRuns >= 2 /\ Len(rcIn) = 3
  /\ WellSpaced(rcIn, MIN_SPACING)
  /\ rcPts = rcIn

\* ---- C19 ----
\* C19: a Map object that was handed to onPositionsComputed keeps the entries
\* it had when it was handed over; the component reads those same entries
\* through every field that still holds the object
C19_DeliveredMapUntouched ==
  /\ \A r \in DOMAIN delivered : delivered[r].now = delivered[r].then
  /\ posRef \in DOMAIN delivered => positions = delivered[posRef].then
  /\ targetRef \in DOMAIN delivered => targetPositions = delivered[targetRef].then

\* the component holds two delivered Maps at once: the one it shows, to which
\* an incremental projection or a pending placement added an entry, and the
\* one a later recompute delivered and the animation moves to
C19_Witness ==
  /\ posRef \in DOMAIN delivered
  /\ targetRef \in DOMAIN delivered
  /\ posRef # targetRef
  /\ isAnimatingPositions
  /\ knnPlaced # {}
  /\ positions # targetPositions

\* ---- C29 ----
\* the sum of the c-th coordinates of the points
CoordSum(pts, c) == SumOver([i \in DOMAIN pts |-> pts[i][c]], DOMAIN pts)

\* C29: a run of resolveCollisions keeps the entries of the map (the points
\* stay as many, in the same order) and keeps the sum of the x and the sum of
\* the y coordinates
C29_CentroidPreserved ==
  rcPc = "relaxed" =>
    /\ Len(rcPts) = Len(rcIn)
    /\ CoordSum(rcPts, 1) = CoordSum(rcIn, 1)
    /\ CoordSum(rcPts, 2) = CoordSum(rcIn, 2)

\* a run that moved the points of a map holding a coincident pair and a pair
\* that overlaps without coinciding
C29_Witness ==
  /\ rcPc = "relaxed" /\ Len(rcIn) = 3
  /\ rcIn[1] = rcIn[2] /\ rcIn[3] # rcIn[1]
  /\ ~WellSpaced(<<rcIn[1], rcIn[3]>>, MIN_SPACING)
  /\ \A i \in 1..3 : rcPts[i] # rcIn[i]

\* ---- C28 ----
distSqOf(p, q) == (q[1] - p[1]) * (q[1] - p[1]) + (q[2] - p[2]) * (q[2] - p[2])

\* some point j > i is closer to point i than minDistance when the pass
\* reaches i, and the grid does not list it in the neighbourhood of i's cell
skipsAt(st, i, grid, minDistance) ==
  \E j \in (i + 1)..Len(st.pts) :
    /\ distSqOf(st.pts[i], st.pts[j]) < minDistance * minDistance
    /\ \A o \in 1..Len(NeighbourOffsets) :
         grid[j] # <<cellOf(st.pts[i], minDistance)[1] + NeighbourOffsets[o][1],
                     cellOf(st.pts[i], minDistance)[2] + NeighbourOffsets[o][2]>>

RECURSIVE passSkips(_, _, _, _, _)
passSkips(st, i, grid, minDistance, seed) ==
  IF i > Len(st.pts) THEN FALSE
  ELSE skipsAt(st, i, grid, minDistance)
       \/ passSkips(pushAll(st, i,
                            candidatesFrom(1, i, cellOf(st.pts[i], minDistance), grid),
                            minDistance, seed),
                    i + 1, grid, minDistance, seed)

gridOf(st, minDistance) == [j \in 1..Len(st.pts) |-> cellOf(st.pts[j], minDistance)]

RECURSIVE runSkips(_, _, _, _)
runSkips(st, iter, minDistance, seed) ==
  IF iter >= COLLISION_ITERATIONS THEN FALSE
  ELSE passSkips(st, 1, gridOf(st, minDistance), minDistance, seed)
       \/ runSkips(collisionPass(st, 1, gridOf(st, minDistance), minDistance, seed),
                   iter + 1, minDistance, seed)

\* C28: in no pass of a run of resolveCollisions is a pair that is closer than
\* the minimum spacing, when the pass reaches its first point, left out of the
\* 3x3 neighbourhood the pass looks through
C28_NoOverlapSkipped ==
  rcPc = "relaxed" => ~runSkips([pts |-> rcIn, k |-> 0], 0, MIN_SPACING, rcSeed)

\* ---- C21 ----
\* the squared distance of item j from item i
distOf(i, j) == squaredDistance(uData[i], uData[j])

\* C21: for n >= 6 the number of neighbours is min(config.nNeighbors,
\* floor((n - 1) / 2), 15), and findKNearestNeighbors gives every item exactly
\* that many distinct neighbours, never the item itself, in non-decreasing
\* order of distance, none of them farther than an item it left out
C21_NearestNeighbors ==
  (uPc # "off" /\ uPc # "start") =>
    /\ uNeighbors.k = Min(Min(uConfig.nNeighbors, (Len(uData) - 1) \div 2), 15)
    /\ Len(uNeighbors.indices) = Len(uData)
    /\ \A i \in 1..Len(uData) :
         LET nb == uNeighbors.indices[i] IN
         /\ Len(nb) = uNeighbors.k
         /\ \A m \in 1..Len(nb) : nb[m] \in 1..Len(uData) /\ nb[m] # i
         /\ \A m, q \in 1..Len(nb) : m # q => nb[m] # nb[q]
         /\ \A m \in 1..(Len(nb) - 1) : distOf(i, nb[m]) <= distOf(i, nb[m + 1])
         /\ \A m \in 1..Len(nb) : uNeighbors.distances[i][m] = sqrtMilli(distOf(i, nb[m]))
         /\ \A j \in 1..Len(uData) :
              (j # i /\ \A m \in 1..Len(nb) : nb[m] # j) =>
                \A m \in 1..Len(nb) : distOf(i, nb[m]) <= distOf(i, j)

\* 33 items, 15 neighbours each (15 is the least of the three bounds), with
\* an item left out that is as far as the last neighbour taken
C21_Witness ==
  /\ uPc = "neighbors" /\ Len(uData) = 33 /\ uConfig.nNeighbors = 20
  /\ uNeighbors.k = 15
  /\ \E i, j \in 1..33 :
       /\ j # i /\ \A m \in 1..15 : uNeighbors.indices[i][m] # j
       /\ distOf(i, j) = distOf(i, uNeighbors.indices[i][15])

\* ---- C22 ----
Edges == 1..Len(uGraph.head)

\* C22: the graph of computeMembershipStrengths has at most one edge for a
\* pair of items, no edge from an item to itself, an edge for every pair of
\* which one item is among the nearest neighbours of the other, and weights
\* greater than 0 and at most 1
C22_GraphWellFormed ==
  (uPc = "graph" \/ uPc = "layout") =>
    /\ Len(uGraph.tail) = Len(uGraph.head) /\ Len(uGraph.weights) = Len(uGraph.head)
    /\ \A e, f \in Edges :
         e # f => {uGraph.head[e], uGraph.tail[e]} # {uGraph.head[f], uGraph.tail[f]}
    /\ \A e \in Edges : uGraph.head[e] # uGraph.tail[e]
    /\ \A i \in 1..Len(uData) : \A m \in 1..Len(uNeighbors.indices[i]) :
         \E e \in Edges :
           {uGraph.head[e], uGraph.tail[e]} = {i, uNeighbors.indices[i][m]}
    /\ \A e \in Edges : uGraph.weights[e] > 0 /\ uGraph.weights[e] <= 1000

\* a graph in which an item and one of its neighbours name each other, and
\* which has a weight below 1
C22_Witness ==
  /\ uPc = "graph"
  /\ \E i \in 1..Len(uData) : \E m \in 1..uNeighbors.k :
       \E q \in 1..uNeighbors.k :
         uNeighbors.indices[uNeighbors.indices[i][m]][q] = i
  /\ \E e \in Edges : uGraph.weights[e] < 1000

\* ---- C23 ----
\* the items joined to item v by an edge
neighborsInGraph(v) ==
  {uGraph.tail[e] : e \in {f \in Edges : uGraph.head[f] = v}}
    \cup {uGraph.head[e] : e \in {f \in Edges : uGraph.tail[f] = v}}

\* C23: in an epoch, each endpoint of each edge is moved by 5 negative
\* samples, each of a point that is not a neighbour of the endpoint, each
\* with a coefficient between -4 and 4
C23_NegativeSamplesPerEndpoint ==
  uPc = "layout" =>
    \A e \in Edges : \A v \in {uGraph.head[e], uGraph.tail[e]} :
      /\ Cardinality({s \in 1..Len(uSamples) :
                        uSamples[s].edge = e /\ v \in uSamples[s].moved})
           = negativeSampleRate
      /\ \A s \in 1..Len(uSamples) :
           (uSamples[s].edge = e /\ v \in uSamples[s].moved) =>
             /\ uSamples[s].k # v
             /\ uSamples[s].k \notin neighborsInGraph(v)
             /\ uSamples[s].grad >= -4000 /\ uSamples[s].grad <= 4000

\* ---- C24 ----
nonEmptyString(v) == v.t = "string" /\ Len(v.v) > 0

\* the formats the body holds
suppliedFormats(body) ==
  {f \in {"pixels", "pixel_string", "pixel_grid"} : body[f].t # "undefined"}

\* 256 numbers, each an integer in 0..7
isIndexArray(v) ==
  /\ v.t = "array" /\ Len(v.v) = 256
  /\ \A i \in 1..Len(v.v) : v.v[i] \in {10 * c : c \in 0..7}

\* 256 digits, each in 0..7
isIndexString(v) ==
  /\ v.t = "string" /\ Len(v.v) = 256
  /\ \A i \in 1..Len(v.v) : v.v[i] \in {"0", "1", "2", "3", "4", "5", "6", "7"}

\* 16 strings of 16 characters of the character map
isIndexGrid(v) ==
  /\ v.t = "array" /\ Len(v.v) = 16
  /\ \A y \in 1..Len(v.v) :
       /\ v.v[y].t = "string" /\ Len(v.v[y].v) = 16
       /\ \A x \in 1..Len(v.v[y].v) : v.v[y].v[x] \in DOMAIN GRID_CHAR_MAP

resolvesToIndices(body, f) ==
  CASE f = "pixels" -> isIndexArray(body.pixels)
    [] f = "pixel_string" -> isIndexString(body.pixel_string)
    [] OTHER -> isIndexGrid(body.pixel_grid)

acceptable(body) ==
  /\ body.json = "object"
  /\ nonEmptyString(body.name) /\ nonEmptyString(body.creator)
  /\ Len(trim(body.name.v)) <= 40
  /\ Cardinality(suppliedFormats(body)) = 1
  /\ \A f \in suppliedFormats(body) : resolvesToIndices(body, f)

\* C24: POST /api/drawings inserts only when name and creator are non-empty
\* strings, the trimmed name at most 40 characters, and exactly one of pixels,
\* pixel_string, pixel_grid is supplied and resolves to 256 colour indices in
\* 0..7; every other request is answered 400 and inserts nothing
C24_PostValidates ==
  sPc = "answered" =>
    /\ sInsert # "none" => acceptable(sBody)
    /\ ~acceptable(sBody) => (sStatus = 400 /\ sInsert = "none" /\ sRows = <<>>)

\* ---- C25 ----
\* C25: when a done message is handled, its embeddings are paired, index by
\* index, with the drawings of the request that produced it
C25_DoneAlignedWithRequest ==
  [][(doneQ # <<>> /\ doneQ' = Tail(doneQ)) =>
       /\ lastEmbeddings' = Head(doneQ).embeddings
       /\ lastDrawingIds' = Head(doneQ).ids]_vars

\* ---- C27 ----
\* C27: the k-NN microtask either projects every drawing of its batch of 1 to
\* 5 and requests no recompute, or leaves the position map as it was and
\* requests a recompute
C27_OnePathPerBatch ==
  knnOutcome.batch # {} =>
    /\ Cardinality(knnOutcome.batch) \in 1..5
    /\ \/ knnOutcome.projected = knnOutcome.batch /\ ~knnOutcome.recompute
       \/ knnOutcome.kept /\ knnOutcome.recompute

\* a batch with a drawing that can be projected and one that cannot
C27_Witness ==
  /\ knnOutcome.recompute /\ knnOutcome.kept
  /\ \E i, j \in 1..Len(drawings) :
       /\ drawings[i].id \in knnOutcome.batch /\ drawings[i].px = "black"
       /\ drawings[j].id \in knnOutcome.batch /\ drawings[j].px = "blank"
  /\ DOMAIN positions # {}

\* ---- C30 ----
\* C30: isComputing is true exactly when a request has been posted whose done
\* message has not been handled
C30_ComputingIffOutstanding ==
  isComputing <=> (reqQ # <<>> \/ doneQ # <<>>)

\* ---- C26 ----
\* C26: the drawings of a batch that arrived while a request was outstanding,
\* and after which no drawing arrived, that have content are in the position
\* map from some point on
C26_InFlightArrivalsPlaced ==
  <>[](\A i \in 1..Len(drawings) :
         (drawings[i].id \in inFlightBatch /\ drawings[i].px # "blank") =>
           drawings[i].id \in DOMAIN positions)

====
